---- MODULE Spec2Model ----
(***************************************************************************)
(* Model of the standaardwerk step-program compiler:                       *)
(*   - the netlist generator (src/generator: generateTIAPortalXML and the  *)
(*     Document / FunctionBlock / Network / Part / Access / Wire /         *)
(*     MultilingualText / UidManager components),                          *)
(*   - the line parsers (LogicParser, EnhancedLogicParser, EnhancedParser) *)
(*     and the validation of UnifiedTextParser.                            *)
(* Input lines are modelled as records of the lexical features the         *)
(* parsers' regular expressions look at; generated XML is modelled as the  *)
(* tree of elements and attributes the serializer emits.                   *)
(***************************************************************************)
EXTENDS Integers, Sequences, FiniteSets, TLC

VARIABLES
    parseResult,         \* the ParseResult handed to generateTIAPortalXML
    genOut,              \* what generateTIAPortalXML returned ("none" before the call)
    net,                 \* a Network object driven through its public methods
    netXml,              \* the last serialization of net ("none" before toXml)
    parser,              \* the entry point that was called on the text
    text,                \* the text as given: a sequence of lines
    code,                \* the lines the line parser scans (code.split('\n'))
    phase,               \* how far the call has got
    lineNumber,          \* number of lines scanned so far
    result,              \* this.result of the parser
    currentStep,         \* EnhancedParser.parseText: the step not yet pushed
    pendingConditions,   \* conditions waiting for their owner
    pendingTransitions,  \* EnhancedLogicParser.pendingTransitions
    crossReferences,     \* EnhancedLogicParser.crossReferences (a Map, in insertion order)
    element,             \* an XmlElement driven through its public methods
    xmlOut,              \* what element.toString returned ("none" before the call)
    rawText,             \* the text given to normalizeText, character by character
    source,              \* the source given to normalizeText
    normalized,          \* what normalizeText returned, call after call
    document,            \* the FunctionBlock of a Document built by the generator
    docOut,              \* what Document.toXml returned, call after call
    variableName,        \* the name given to determineVariableGroup
    validationRules,     \* the rules given to it: rules.groups in declaration order
    variableGroup,       \* what determineVariableGroup returned ("pending" before the call)
    cache,               \* RegexCache.cache (a Map, in insertion order)
    maxSize,             \* RegexCache.maxSize
    hitCount,            \* RegexCache.hitCount
    missCount,           \* RegexCache.missCount
    returned,            \* the getRegex calls that returned since construction or clear
    lastCall             \* the last call on the RegexCache and what it gave

genVars == <<parseResult, genOut>>
netVars == <<net, netXml>>
scanVars == <<lineNumber, result, currentStep, pendingConditions, pendingTransitions,
              crossReferences>>
parserVars == <<parser, text, code, phase, scanVars>>
xmlVars == <<element, xmlOut>>
normVars == <<rawText, source, normalized>>
docVars == <<document, docOut>>
groupVars == <<variableName, validationRules, variableGroup>>
cacheVars == <<cache, maxSize, hitCount, missCount, returned, lastCall>>
utilVars == <<xmlVars, normVars, docVars, groupVars, cacheVars>>
vars == <<genVars, netVars, parserVars, utilVars>>

(***************************************************************************)
(* Bounds of the model                                                     *)
(***************************************************************************)
MaxGenSteps == 3        \* longest arbitrary step list handed to the generator
MaxStepNumber == 2      \* largest step number in arbitrary step lists
MaxNetOps == 4          \* method calls made on a free-standing Network before toXml

(***************************************************************************)
(* Program constants                                                       *)
(***************************************************************************)
StepBitsHigh == 31      \* 'Array[0..31] of Bool'
MaxGateInputs == 30     \* Array.from({length: 30}, ...) for the 'A' part
RustBaseUid == 500
StepBaseUid == 1000
StepBandWidth == 100
DocStartUid == 0

NoPort == ""            \* fromPort === undefined
NullCard == -1          \* cardinality === null

Range(s) == {s[i] : i \in DOMAIN s}

RECURSIVE Flatten(_)
Flatten(ss) == IF ss = <<>> THEN <<>> ELSE Head(ss) \o Flatten(Tail(ss))

\* `in${k}`
InPort(k) == "in" \o ToString(k)

(***************************************************************************)
(* Network.partDefinitions                                                 *)
(***************************************************************************)
PartNames == {"Sr", "Coil", "A"}

PartInputs(name) ==
    CASE name = "Sr" -> {"s", "r1", "operand"}
      [] name = "Coil" -> {"in", "operand"}
      [] name = "A" -> {InPort(i) : i \in 1..MaxGateInputs}
      [] OTHER -> {}

(***************************************************************************)
(* MultilingualText: the constructor takes one id; toXml takes one id per  *)
(* text item from the same UidManager.                                     *)
(***************************************************************************)
NewMultilingualText(uid, compositionName, initialText) ==
    [id |-> uid, compositionName |-> compositionName,
     texts |-> <<[lang |-> "nl-NL", text |-> initialText],
                 [lang |-> "en-GB", text |-> initialText]>>]

\* the serialized element, given the UidManager's counter at the call
MultilingualTextToXml(mt, uid) ==
    [ID |-> mt.id, CompositionName |-> mt.compositionName,
     items |-> [i \in DOMAIN mt.texts |->
                   [ID |-> uid + i - 1, Culture |-> mt.texts[i].lang,
                    Text |-> mt.texts[i].text]]]

(***************************************************************************)
(* Part / Access / Wire objects.  Parts and accesses share one record      *)
(* shape so that they can sit in the same list (Network.parts).            *)
(***************************************************************************)
NewPart(uid, name) ==
    [cls |-> "Part", id |-> uid, name |-> name, cardinality |-> NullCard,
     negatedInputs |-> {}, variable |-> "", index |-> -1,
     isLiteralBool |-> FALSE, literalValue |-> FALSE]

NewAccess(uid, variable, index, isLiteralBool, literalValue) ==
    [cls |-> "Access", id |-> uid, name |-> "", cardinality |-> NullCard,
     negatedInputs |-> {}, variable |-> variable, index |-> index,
     isLiteralBool |-> isLiteralBool, literalValue |-> literalValue]

\* Part.negateInput: unknown ports are only warned about
\* mutant: the port is never marked
NegateInputDropped(part, portName) == part

NegateInput(part, portName) ==
    IF portName \in PartInputs(part.name)
    THEN [part EXCEPT !.negatedInputs = @ \cup {portName}]
    ELSE part

NewWire(uid, fromId, fromPort, toId, toPort) ==
    [id |-> uid, from |-> [partId |-> fromId, port |-> fromPort],
     to |-> [partId |-> toId, port |-> toPort]]

\* Part.toXml / Access.toXml: the element with its attributes and children
PartToXml(p) ==
    IF p.cls = "Part"
    THEN [tag |-> "Part", Name |-> p.name, UId |-> p.id,
          hasCard |-> (p.cardinality # NullCard /\ p.cardinality > 0),
          Card |-> p.cardinality, Negated |-> p.negatedInputs,
          Scope |-> "", Component |-> "", Index |-> -1]
    ELSE [tag |-> "Access", Name |-> "", UId |-> p.id,
          hasCard |-> FALSE, Card |-> NullCard, Negated |-> {},
          Scope |-> IF p.isLiteralBool THEN "LiteralConstant" ELSE "LocalVariable",
          Component |-> p.variable, Index |-> p.index]

WireToXml(w) ==
    [UId |-> w.id,
     fromTag |-> IF w.from.port # NoPort THEN "NameCon" ELSE "IdentCon",
     fromUId |-> w.from.partId, fromName |-> w.from.port,
     toUId |-> w.to.partId, toName |-> w.to.port]

(***************************************************************************)
(* Network                                                                 *)
(***************************************************************************)
\* constructor(parentUidManager, title, baseUid); parentUid is the value
\* parentUidManager.next() returned
NewNetwork(parentUid, title, baseUid) ==
    [id |-> parentUid,
     uid |-> baseUid + 2,
     title |-> NewMultilingualText(baseUid, "Title", title),
     comment |-> NewMultilingualText(baseUid + 1, "Comment", ""),
     parts |-> <<>>, wires |-> <<>>, threw |-> FALSE]

AddPart(n, name) ==
    IF name \notin PartNames
    THEN [n EXCEPT !.threw = TRUE]
    ELSE [n EXCEPT !.parts = Append(@, NewPart(n.uid, name)), !.uid = @ + 1]

AddAccess(n, variable, index) ==
    [n EXCEPT !.parts = Append(@, NewAccess(n.uid, variable, index, FALSE, FALSE)),
              !.uid = @ + 1]

AddLiteralBool(n, value) ==
    [n EXCEPT !.parts = Append(@, NewAccess(n.uid, "", -1, TRUE, value)),
              !.uid = @ + 1]

\* the object most recently pushed on parts (what addPart/addAccess returned)
LastPartId(n) == n.parts[Len(n.parts)].id

Connect(n, fromId, fromPort, toId, toPort, negated) ==
    [n EXCEPT
       !.wires = Append(@, NewWire(n.uid, fromId, fromPort, toId, toPort)),
       !.uid = @ + 1,
       !.parts = [i \in DOMAIN n.parts |->
                     IF negated /\ n.parts[i].cls = "Part" /\ n.parts[i].id = toId
                     THEN NegateInput(n.parts[i], toPort)
                     ELSE n.parts[i]]]

\* mutant: counts the wires leaving the part instead of those arriving
PartInputCountBySource(n, id) ==
    Cardinality({i \in DOMAIN n.wires : n.wires[i].from.partId = id})

\* partInputCounts.get(id) || 0
PartInputCount(n, id) == Cardinality({i \in DOMAIN n.wires : n.wires[i].to.partId = id})

\* pass 1 of toXml: every 'A' part gets its cardinality
ResolveCardinality(n) ==
    [n EXCEPT !.parts = [i \in DOMAIN n.parts |->
        IF n.parts[i].cls = "Part" /\ n.parts[i].name = "A"
        THEN [n.parts[i] EXCEPT !.cardinality = PartInputCount(n, n.parts[i].id)]
        ELSE n.parts[i]]]

\* Network.toXml: the object after the call (cardinalities set, four text-item
\* ids taken) and the compile unit it emitted
NetworkToXml(n) ==
    LET r == ResolveCardinality(n)
        commentXml == MultilingualTextToXml(r.comment, r.uid)
        titleXml == MultilingualTextToXml(r.title, r.uid + Len(r.comment.texts))
    IN [obj |-> [r EXCEPT !.uid = @ + Len(r.comment.texts) + Len(r.title.texts)],
        xml |-> [ID |-> r.id,
                 Parts |-> [i \in DOMAIN r.parts |-> PartToXml(r.parts[i])],
                 Wires |-> [i \in DOMAIN r.wires |-> WireToXml(r.wires[i])],
                 Comment |-> commentXml, Title |-> titleXml]]

(***************************************************************************)
(* Interface: Section.addMember / Member.addSubelement                     *)
(***************************************************************************)
NewMember(name, datatype, remanence) ==
    [Name |-> name, Datatype |-> datatype, Remanence |-> remanence,
     subelements |-> <<>>]

AddSubelement(member, path, comment) ==
    [member EXCEPT !.subelements = Append(@, [Path |-> path, Comment |-> comment])]

\* `${step.type === 'RUST' ? 'RUST' : `STAP ${step.number}`}: ${step.description || ''}`.trim()
CommentText(step) ==
    LET head == IF step.type = "RUST" THEN "RUST" ELSE "STAP " \o ToString(step.number)
    IN IF step.description = "" THEN head \o ":" ELSE head \o ": " \o step.description

RECURSIVE AddStepComments(_, _)
AddStepComments(member, stepSeq) ==
    IF stepSeq = <<>> THEN member
    ELSE AddStepComments(
             AddSubelement(member, ToString(Head(stepSeq).number), CommentText(Head(stepSeq))),
             Tail(stepSeq))

BuildInterface(stepSeq) ==
    [Static |-> <<AddStepComments(NewMember("Stap", "Array[0..31] of Bool", "Retain"), stepSeq),
                  NewMember("Stap_A", "Array[0..31] of Bool", "Retain"),
                  NewMember("Stap_B", "Array[0..31] of Bool", "Retain"),
                  NewMember("Stap_C", "Array[0..31] of Bool", "Retain"),
                  NewMember("Hulp", "Array[1..32] of Bool", "Retain"),
                  NewMember("Tijd", "Array[1..10] of IEC_TIMER", "Retain"),
                  NewMember("Teller", "Array[1..10] of Int", "Retain")>>,
     Output |-> <<NewMember("Uit_Stap_Tekst", "Int", "")>>]

(***************************************************************************)
(* FunctionBlock                                                           *)
(***************************************************************************)
\* Document.addFb -> new FunctionBlock(uidManager, name), uidManager at startUid
NewFunctionBlock(startUid, name) ==
    [id |-> startUid,
     name |-> name,
     comment |-> NewMultilingualText(startUid + 1, "Comment", ""),
     title |-> NewMultilingualText(startUid + 2, "Title", ""),
     uid |-> startUid + 3,
     interface |-> BuildInterface(<<>>),
     networks |-> <<>>]

\* FunctionBlock.addNetwork: the new network takes the next document id
AddNetwork(fb, title, baseUid) ==
    [fb EXCEPT !.networks = Append(@, NewNetwork(fb.uid, title, baseUid)),
               !.uid = @ + 1]

LastNetwork(fb) == fb.networks[Len(fb.networks)]

\* the generator holds a reference to the network it got from addNetwork
WithLastNetwork(fb, n) == [fb EXCEPT !.networks[Len(fb.networks)] = n]

\* FunctionBlock.toXml inside Document.toXml
FunctionBlockToXml(fb) ==
    LET commentXml == MultilingualTextToXml(fb.comment, fb.uid)
        titleXml == MultilingualTextToXml(fb.title, fb.uid + Len(fb.comment.texts))
    IN [ID |-> fb.id, Name |-> fb.name, Interface |-> fb.interface,
        Comment |-> commentXml,
        Units |-> [i \in DOMAIN fb.networks |-> NetworkToXml(fb.networks[i]).xml],
        Title |-> titleXml]

\* the FunctionBlock after FunctionBlock.toXml: comment and title took their
\* text-item ids from the document's UidManager, every network from its own
FunctionBlockAfterToXml(fb) ==
    [id |-> fb.id, name |-> fb.name, comment |-> fb.comment, title |-> fb.title,
     uid |-> fb.uid + Len(fb.comment.texts) + Len(fb.title.texts),
     interface |-> fb.interface,
     networks |-> [i \in DOMAIN fb.networks |-> NetworkToXml(fb.networks[i]).obj]]

(***************************************************************************)
(* generateTIAPortalXML                                                    *)
(***************************************************************************)
IsStap(s) == s.type = "STAP"

\* parseResult.steps.find(s => s.type === type): index of the first match, 0
\* for undefined
FindFirst(stepSeq, type) ==
    IF \E i \in DOMAIN stepSeq : stepSeq[i].type = type
    THEN CHOOSE i \in DOMAIN stepSeq :
             stepSeq[i].type = type /\ \A j \in 1..(i - 1) : stepSeq[j].type # type
    ELSE 0

RECURSIVE AddStepAccesses(_, _)
AddStepAccesses(n, stepSeq) ==
    IF stepSeq = <<>> THEN n
    ELSE AddStepAccesses(AddAccess(n, "Stap", Head(stepSeq).number), Tail(stepSeq))

\* stepAccesses.forEach((access, idx) => connect(access, undefined, gate, `in${idx+1}`, {negated: true}))
RECURSIVE ConnectNegated(_, _, _, _)
ConnectNegated(n, accessIds, gateId, k) ==
    IF k > Len(accessIds) THEN n
    ELSE ConnectNegated(Connect(n, accessIds[k], NoPort, gateId, InPort(k), TRUE),
                        accessIds, gateId, k + 1)

RustTitle(rustStep) ==
    IF rustStep.description # "" THEN rustStep.description ELSE "RUST Logic"

\* Netwerk 1: RUST Logic, built on the network addNetwork just returned
BuildRustNetwork(n0, stepSeq) ==
    LET stepsToReset == SelectSeq(stepSeq, IsStap)
        n1 == AddStepAccesses(n0, stepsToReset)
        stepAccesses == [i \in 1..Len(stepsToReset) |-> n1.parts[Len(n0.parts) + i].id]
        n2 == AddPart(n1, "A")
        aGateRust == LastPartId(n2)
        n3 == ConnectNegated(n2, stepAccesses, aGateRust, 1)
        n4 == AddPart(n3, "Sr")
        srRust == LastPartId(n4)
        firstStep == FindFirst(stepSeq, "STAP")
        n5 == IF firstStep # 0
              THEN LET a == AddAccess(n4, "Stap", stepSeq[firstStep].number)
                   IN Connect(a, LastPartId(a), NoPort, srRust, "r1", FALSE)
              ELSE n4
        n6 == Connect(n5, aGateRust, "out", srRust, "s", FALSE)
        n7 == AddAccess(n6, "Stap", 0)
    IN Connect(n7, LastPartId(n7), NoPort, srRust, "operand", FALSE)

\* mutant: off by one, the last two steps are taken as final
IsFinalStepOffByOne(normalSteps, idx) == idx >= Len(normalSteps) - 1

IsFinalStep(normalSteps, idx) == idx = Len(normalSteps)

\* mutant: bands narrower than a step network needs
StepBaseNarrow(idx) == StepBaseUid + (idx - 1) * 10

StepBase(idx) == StepBaseUid + (idx - 1) * StepBandWidth

StepTitle(step) == "STAP " \o ToString(step.number) \o ": " \o step.description

\* body of normalSteps.forEach((step, idx) => ...); idx counts from 1 here
BuildStepNetwork(n0, normalSteps, idx) ==
    LET step == normalSteps[idx]
        prevStepNumber == IF idx = 1 THEN 0 ELSE normalSteps[idx - 1].number
        n1 == AddAccess(n0, "Stap", prevStepNumber)
        prevStepAccess == LastPartId(n1)
        n2 == AddAccess(n1, "Stap", step.number)
        notCurrentStepAccess == LastPartId(n2)
        n3 == AddLiteralBool(n2, FALSE)
        falseAccess == LastPartId(n3)
        n4 == AddPart(n3, "A")
        conditionGate == LastPartId(n4)
        n5 == Connect(n4, prevStepAccess, NoPort, conditionGate, "in1", FALSE)
        n6 == Connect(n5, notCurrentStepAccess, NoPort, conditionGate, "in2", TRUE)
        n7 == Connect(n6, falseAccess, NoPort, conditionGate, "in3", FALSE)
    IN IF IsFinalStep(normalSteps, idx)
       THEN LET c1 == AddPart(n7, "Coil")
                coil == LastPartId(c1)
                c2 == AddAccess(c1, "Stap", step.number)
                coilOperand == LastPartId(c2)
                c3 == Connect(c2, conditionGate, "out", coil, "in", FALSE)
            IN Connect(c3, coilOperand, NoPort, coil, "operand", FALSE)
       ELSE LET nextStep == normalSteps[idx + 1]
                s1 == AddPart(n7, "Sr")
                srBlock == LastPartId(s1)
                s2 == AddAccess(s1, "Stap", nextStep.number)
                resetStepAccess == LastPartId(s2)
                s3 == AddAccess(s2, "Stap", step.number)
                srOperand == LastPartId(s3)
                s4 == Connect(s3, conditionGate, "out", srBlock, "s", FALSE)
                s5 == Connect(s4, resetStepAccess, NoPort, srBlock, "r1", FALSE)
            IN Connect(s5, srOperand, NoPort, srBlock, "operand", FALSE)

\* normalSteps.forEach: each iteration takes the next document id for its
\* network and builds it on its own UidManager
AddStepNetworks(fb, normalSteps) ==
    [fb EXCEPT
       !.networks = @ \o [idx \in 1..Len(normalSteps) |->
           BuildStepNetwork(
               NewNetwork(fb.uid + (idx - 1), StepTitle(normalSteps[idx]), StepBase(idx)),
               normalSteps, idx)],
       !.uid = @ + Len(normalSteps)]

\* mutant: the empty list is not checked
NoStepsToCompileNoLength(pr) == ~pr.present \/ ~pr.hasSteps

\* the guard at the top of generateTIAPortalXML
NoStepsToCompile(pr) == ~pr.present \/ ~pr.hasSteps \/ Len(pr.steps) = 0

FbName(pr) == IF pr.functionBlock # "" THEN pr.functionBlock ELSE "FB1"

\* the FunctionBlock as it stands when doc.toXml(true) is reached
BuildFunctionBlock(pr) ==
    LET f0 == [NewFunctionBlock(DocStartUid, FbName(pr))
                 EXCEPT !.interface = BuildInterface(pr.steps)]
        rustStep == FindFirst(pr.steps, "RUST")
        f1 == IF rustStep # 0
              THEN LET a == AddNetwork(f0, RustTitle(pr.steps[rustStep]), RustBaseUid)
                   IN WithLastNetwork(a, BuildRustNetwork(LastNetwork(a), pr.steps))
              ELSE f0
    IN AddStepNetworks(f1, SelectSeq(pr.steps, IsStap))

GenerateTIAPortalXML(pr) ==
    IF NoStepsToCompile(pr)
    THEN [kind |-> "NoStepsComment"]
    ELSE LET fb == BuildFunctionBlock(pr)
         IN IF \E i \in DOMAIN fb.networks : fb.networks[i].threw
            THEN [kind |-> "Threw"]
            ELSE [kind |-> "Document", FB |-> FunctionBlockToXml(fb)]

(***************************************************************************)
(* XmlElement (xml-builder.ts).  A string is the sequence of its           *)
(* characters.  An element is [name, attributes, children]: attributes in  *)
(* insertion order, each child [content, isRaw, isElement].  toString is   *)
(* kept as the list of pieces it concatenates; a piece made from an        *)
(* attribute value, a text child or a raw fragment remembers that string.  *)
(***************************************************************************)
NewXmlElement(name, children) ==
    [name |-> name, attributes |-> <<>>,
     children |-> [i \in DOMAIN children |->
                      [content |-> children[i].content, isRaw |-> FALSE,
                       isElement |-> children[i].isElement]]]

TextChild(s) == [content |-> s, isElement |-> FALSE]
ElementChild(e) == [content |-> e, isElement |-> TRUE]

\* XmlElement.add
XmlAdd(el, child) ==
    [el EXCEPT !.children =
        Append(@, [content |-> child.content, isRaw |-> FALSE,
                   isElement |-> child.isElement])]

\* XmlElement.addRaw
XmlAddRaw(el, xml) ==
    [el EXCEPT !.children = Append(@, [content |-> xml, isRaw |-> TRUE, isElement |-> FALSE])]

\* XmlElement.attr with a defined value: this.attributes[key] = value
XmlAttr(el, key, value) ==
    IF \E i \in DOMAIN el.attributes : el.attributes[i].key = key
    THEN [el EXCEPT !.attributes =
            [i \in DOMAIN el.attributes |->
                IF el.attributes[i].key = key THEN [key |-> key, value |-> value]
                ELSE el.attributes[i]]]
    ELSE [el EXCEPT !.attributes = Append(@, [key |-> key, value |-> value])]

\* String.replace(/ch/g, entity)
ReplaceAll(str, ch, entity) ==
    Flatten([i \in DOMAIN str |-> IF str[i] = ch THEN entity ELSE <<str[i]>>])

\* mutant: the ampersand is replaced after the other four characters
EscapeXmlAmpersandLast(str) ==
    ReplaceAll(ReplaceAll(ReplaceAll(ReplaceAll(ReplaceAll(str,
        "<", <<"&", "l", "t", ";">>),
        ">", <<"&", "g", "t", ";">>),
        "\"", <<"&", "q", "u", "o", "t", ";">>),
        "'", <<"&", "a", "p", "o", "s", ";">>),
        "&", <<"&", "a", "m", "p", ";">>)

\* XmlElement.escapeXml: five replacements, the ampersand first
EscapeXml(str) ==
    ReplaceAll(ReplaceAll(ReplaceAll(ReplaceAll(ReplaceAll(str,
        "&", <<"&", "a", "m", "p", ";">>),
        "<", <<"&", "l", "t", ";">>),
        ">", <<"&", "g", "t", ";">>),
        "\"", <<"&", "q", "u", "o", "t", ";">>),
        "'", <<"&", "a", "p", "o", "s", ";">>)

\* '  '.repeat(level)
Indent(level) == [i \in 1..(2 * level) |-> " "]

Markup(str) == [kind |-> "markup", of |-> str, str |-> str]

\* `${key}="${this.escapeXml(String(value))}"`, joined by ' '
AttributePieces(el) ==
    Flatten([i \in DOMAIN el.attributes |->
        <<Markup((IF i > 1 THEN <<" ">> ELSE <<>>) \o el.attributes[i].key \o <<"=", "\"">>),
          [kind |-> "attribute", of |-> el.attributes[i].value,
           str |-> EscapeXml(el.attributes[i].value)],
          Markup(<<"\"">>)>>])

\* XmlElement.toString(pretty, level), as the pieces it concatenates
RECURSIVE ToStringPieces(_, _, _)
ToStringPieces(el, pretty, level) ==
    LET indent == IF pretty THEN Indent(level) ELSE <<>>
        openTag == <<Markup(indent \o <<"<">> \o el.name
                            \o (IF Len(el.attributes) > 0 THEN <<" ">> ELSE <<>>))>>
                   \o AttributePieces(el)
        isSimpleText == /\ Len(el.children) = 1
                        /\ ~el.children[1].isElement
                        /\ ~el.children[1].isRaw
        closeTag == <<"<", "/">> \o el.name \o <<">">>
    IN IF Len(el.children) = 0 THEN openTag \o <<Markup(<<" ", "/", ">">>)>>
       ELSE IF isSimpleText /\ pretty
       THEN openTag
            \o <<Markup(<<">">>),
                 [kind |-> "text", of |-> el.children[1].content,
                  str |-> EscapeXml(el.children[1].content)],
                 Markup(closeTag)>>
       ELSE openTag
            \o <<Markup(<<">">> \o (IF pretty THEN <<"\n">> ELSE <<>>))>>
            \o Flatten([i \in DOMAIN el.children |->
                  LET child == el.children[i]
                  IN (IF i > 1 /\ pretty THEN <<Markup(<<"\n">>)>> ELSE <<>>)
                     \o (IF child.isElement
                         THEN ToStringPieces(child.content, pretty, level + 1)
                         ELSE IF child.isRaw
                         THEN <<[kind |-> "raw", of |-> child.content,
                                 str |-> child.content]>>
                         ELSE <<Markup(IF pretty THEN indent \o <<" ", " ">> ELSE <<>>),
                                [kind |-> "text", of |-> child.content,
                                 str |-> EscapeXml(child.content)]>>)])
            \o <<Markup((IF pretty THEN <<"\n">> \o indent ELSE <<>>) \o closeTag)>>

\* the string toString returns
XmlToString(el, pretty, level) ==
    LET pieces == ToStringPieces(el, pretty, level)
    IN Flatten([i \in DOMAIN pieces |-> pieces[i].str])

(***************************************************************************)
(* Input lines.  A line is the record of the lexical features the parsers' *)
(* regular expressions look at.  The written forms are                     *)
(*   blank     (only whitespace)                                           *)
(*   header    <text> FB<number>                                           *)
(*   symbolik  Symbool IDB: <text>                                         *)
(*   variable  <text> =                                                    *)
(*   decl      <keyword>[ <number>]: <text>                                *)
(*   von       [+ ]VON <keyword> <number>                                  *)
(*   cond      [- |+ ]<text>[ (<program> <keyword> <n1>+<n2>...)]          *)
(* with or without leading whitespace.  Texts hold no keyword, colon,      *)
(* equals sign, negation word, timer or comparison unless said otherwise.  *)
(***************************************************************************)
NoNumber == -1          \* no digits written: the capture group is undefined

Line(kind, indented, marker, keyword, number, txt, program, steps) ==
    [kind |-> kind, indented |-> indented, marker |-> marker, keyword |-> keyword,
     number |-> number, text |-> txt, program |-> program, steps |-> steps]

\* syntaxRules.stepKeywords
RestKeywords == {"RUST", "RUHE", "IDLE"}
StepKeywords == {"STAP", "SCHRITT", "STEP"}

\* String.toUpperCase on the keywords lines are written with
ToUpperCase(w) ==
    CASE w = "rust" -> "RUST"
      [] w = "idle" -> "IDLE"
      [] w = "stap" -> "STAP"
      [] w = "schritt" -> "SCHRITT"
      [] w = "step" -> "STEP"
      [] OTHER -> w

\* rest.some(k => k.toLowerCase() === stepMatch[1].toLowerCase())
IsRestKeyword(w) == ToUpperCase(w) \in RestKeywords

\* steps.join('+')
RECURSIVE JoinPlus(_)
JoinPlus(steps) ==
    IF steps = <<>> THEN ""
    ELSE IF Len(steps) = 1 THEN ToString(steps[1])
    ELSE ToString(Head(steps)) \o "+" \o JoinPlus(Tail(steps))

\* the line carries a parenthesised reference '(<program> <keyword> <numbers>)'
HasCrossRefSyntax(l) == l.kind = "cond" /\ l.program # ""

\* the trimmed line without its leading '-' or '+ ' marker
BodyText(l) ==
    CASE l.kind = "blank" -> ""
      [] l.kind = "header" -> l.text \o " FB" \o ToString(l.number)
      [] l.kind = "symbolik" -> "Symbool IDB: " \o l.text
      [] l.kind = "variable" -> l.text \o " ="
      [] l.kind = "decl" ->
            l.keyword \o (IF l.number = NoNumber THEN "" ELSE " " \o ToString(l.number))
            \o ":" \o (IF l.text = "" THEN "" ELSE " " \o l.text)
      [] l.kind = "von" -> "VON " \o l.keyword \o " " \o ToString(l.number)
      [] OTHER ->
            l.text \o (IF l.program = "" THEN ""
                       ELSE " (" \o l.program \o " " \o l.keyword \o " "
                            \o JoinPlus(l.steps) \o ")")

\* line.trim()
LineText(l) == (IF l.marker = "" THEN "" ELSE l.marker \o " ") \o BodyText(l)

\* line.includes(':')
IncludesColon(l) == l.kind \in {"decl", "symbolik"}

\* parseInt(digits) || fallback: a missing number and the number 0 are both falsy
ParseIntOr(number, fallback) ==
    IF number = NoNumber \/ number = 0 THEN fallback ELSE number

(***************************************************************************)
(* LogicParser: the result object and the helpers shared with              *)
(* EnhancedLogicParser.  The helpers work on the value                     *)
(*   [result, currentStep, pendingConditions, pendingTransitions,          *)
(*    crossReferences]                                                     *)
(* of the object's fields and of the locals of parse.  The local           *)
(* currentStep of LogicParser.parse is always getLastStep(), and           *)
(* currentVariableDefinition is always getLastVariableDefinition(): both   *)
(* are read from result.  Variable names of the alphabet hold no timer,    *)
(* marker or fault keyword, so every variable is kept in result.variables  *)
(* and the per-kind lists stay empty.                                      *)
(***************************************************************************)
CreateEmptyResult ==
    [programName |-> "", functionBlock |-> "", symbolikIDB |-> "",
     steps |-> <<>>, variables |-> <<>>, errors |-> <<>>, warnings |-> <<>>,
     statistics |-> [totalSteps |-> 0, totalConditions |-> 0, totalVariables |-> 0,
                     externalReferences |-> 0, complexityScore |-> 0]]

NullStep == [type |-> "null"]
NullCrossReference == [description |-> "", program |-> "", steps |-> <<>>]

\* index of the last step of the result, 0 for null
GetLastStep(res) == Len(res.steps)

\* index of the last variable definition of the result, 0 for null
GetLastVariableDefinition(res) == Len(res.variables)

ConditionGroup(operator, conditions) ==
    [type |-> "group", operator |-> operator, conditions |-> conditions]

\* handleEmptyLine and finalizeCurrentVariable have the same body
FinalizeCurrentVariable(s) ==
    IF Len(s.pendingConditions) > 0 /\ GetLastVariableDefinition(s.result) # 0
    THEN [s EXCEPT
            !.result.variables[GetLastVariableDefinition(s.result)].conditions =
                s.pendingConditions,
            !.pendingConditions = <<>>]
    ELSE s

HandleEmptyLine(s) == FinalizeCurrentVariable(s)

\* [matched, result]
TryParseHeader(res, l) ==
    IF res.programName = "" /\ ~l.indented
    THEN IF l.kind = "header"
         THEN [matched |-> TRUE,
               result |-> [res EXCEPT !.programName = l.text,
                                      !.functionBlock = "FB" \o ToString(l.number)]]
         ELSE IF ~IncludesColon(l)
         THEN [matched |-> TRUE, result |-> [res EXCEPT !.programName = LineText(l)]]
         ELSE [matched |-> FALSE, result |-> res]
    ELSE [matched |-> FALSE, result |-> res]

\* line.startsWith('Symbool IDB:')
TryParseSymbolik(l) == l.kind = "symbolik" /\ ~l.indented

DetectVariableType(p, name) == IF p = "LogicParser" THEN "variable" ELSE "hulpmerker"

\* /^([A-Za-z][A-Za-z0-9_]*)\s*=/ on an unindented line
VariableMatch(l) == l.kind = "variable" /\ l.marker = "" /\ ~l.indented

\* tryParseVariable when it matches, and the two assignments parse makes after it
TryParseVariable(s, l, n, p) ==
    LET f == FinalizeCurrentVariable(s)
    IN [f EXCEPT
          !.result.variables =
              Append(@, [name |-> l.text, type |-> DetectVariableType(p, l.text),
                         conditions |-> <<>>, lineNumber |-> n]),
          !.pendingConditions = <<>>]

\* LogicParser.finalizeCurrentStep
LogicFinalizeCurrentStep(s) ==
    IF GetLastStep(s.result) # 0 /\ Len(s.pendingConditions) > 0
    THEN [s EXCEPT
            !.result.steps[GetLastStep(s.result)].transitionConditions =
                <<ConditionGroup("AND", s.pendingConditions)>>,
            !.pendingConditions = <<>>]
    ELSE s

\* texts that hold a step or rest keyword after other words
KeywordTexts == {"to RUST"}

\* LogicParser.isConditionWithProgramReference on the trimmed line
IsConditionWithProgramReference(l) ==
    \/ l.kind = "decl" /\ l.text \in KeywordTexts
    \/ l.kind = "von"
    \/ HasCrossRefSyntax(l)

\* the step pattern of LogicParser.tryParseStep
LogicStepMatch(l) == l.kind = "decl" /\ l.marker = "" /\ ~IsConditionWithProgramReference(l)

\* LogicParser.tryParseStep when it matches, and the assignments parse makes after it
LogicTryParseStep(s, l, n) ==
    LET f == LogicFinalizeCurrentStep(s)
        type == IF IsRestKeyword(l.keyword) THEN "RUST" ELSE "STAP"
        newStep == [type |-> type,
                    number |-> IF type = "RUST" THEN 0 ELSE ParseIntOr(l.number, 0),
                    description |-> l.text,
                    conditions |-> <<>>, transitionConditions |-> <<>>,
                    lineNumber |-> n]
    IN [f EXCEPT !.result.steps = Append(@, newStep), !.pendingConditions = <<>>]

\* LogicParser.addConditionToStep
LogicAddConditionToStep(step, condition, isOr) ==
    LET groups == step.transitionConditions
    IN [step EXCEPT
          !.conditions = Append(@, condition.text),
          !.transitionConditions =
              IF isOr /\ Len(groups) > 0
              THEN Append(groups, ConditionGroup("OR", <<condition>>))
              ELSE IF Len(groups) = 0
              THEN <<ConditionGroup("AND", <<condition>>)>>
              ELSE [groups EXCEPT ![Len(groups)].conditions = Append(@, condition)]]

\* LogicParser.tryParseCondition: every line that got this far is a condition
LogicTryParseCondition(s, l, n) ==
    IF GetLastStep(s.result) = 0 /\ GetLastVariableDefinition(s.result) = 0
    THEN s
    ELSE LET isOr == l.marker = "+"
             conditionText == IF isOr THEN BodyText(l) ELSE LineText(l)
             condition == [text |-> conditionText, negated |-> FALSE,
                           crossReference |-> NullCrossReference,
                           lineNumber |-> n,
                           operator |-> IF isOr THEN "OR" ELSE "AND"]
         IN IF GetLastStep(s.result) # 0
            THEN [s EXCEPT
                    !.result.steps[GetLastStep(s.result)] =
                        LogicAddConditionToStep(@, condition, isOr),
                    !.result.statistics.totalConditions = @ + 1]
            ELSE [s EXCEPT !.pendingConditions = Append(@, condition)]

\* the body of lines.forEach in LogicParser.parse
LogicParserLine(s, l, n) ==
    IF l.kind = "blank" THEN HandleEmptyLine(s)
    ELSE IF TryParseHeader(s.result, l).matched
    THEN [s EXCEPT !.result = TryParseHeader(s.result, l).result]
    ELSE IF TryParseSymbolik(l) THEN [s EXCEPT !.result.symbolikIDB = l.text]
    ELSE IF VariableMatch(l) THEN TryParseVariable(s, l, n, "LogicParser")
    ELSE IF LogicStepMatch(l) THEN LogicTryParseStep(s, l, n)
    ELSE LogicTryParseCondition(s, l, n)

\* Math.round of 2*steps + 1.5*conditions + 1.2*variables + 3*external
ComplexityScore(st) ==
    (20 * st.totalSteps + 15 * st.totalConditions + 12 * st.totalVariables
       + 30 * st.externalReferences + 5) \div 10

\* LogicParser.calculateStatistics
CalculateStatistics(res) ==
    LET st == [res.statistics EXCEPT !.totalSteps = Len(res.steps),
                                     !.totalVariables = Len(res.variables)]
    IN [res EXCEPT !.statistics = [st EXCEPT !.complexityScore = ComplexityScore(st)]]

\* the end of LogicParser.parse, after the last line
LogicParserFinish(s) ==
    LET f == FinalizeCurrentVariable(s)
    IN [f EXCEPT !.result = CalculateStatistics(f.result)]

(***************************************************************************)
(* EnhancedLogicParser                                                     *)
(***************************************************************************)
\* /^\+?\s*VON\s+(SCHRITT|STAP|STEP)\s+(\d+)\s*$/i
VonSchrittMatch(l) == l.kind = "von" /\ l.marker \in {"", "+"}

\* the step pattern of EnhancedLogicParser.tryParseStep
EnhancedStepMatch(l) == l.kind = "decl" /\ l.marker = ""

\* EnhancedLogicParser.finalizeCurrentStep
EnhancedFinalizeCurrentStep(s) ==
    IF GetLastStep(s.result) # 0 /\ Len(s.pendingConditions) > 0
    THEN [s EXCEPT
            !.result.steps[GetLastStep(s.result)].exitConditions =
                <<ConditionGroup("AND", s.pendingConditions)>>,
            !.pendingConditions = <<>>]
    ELSE s

\* type === 'RUST' ? 0 : parseInt(stepMatch[2]) || 1
EnhancedStepNumber(type, number) == IF type = "RUST" THEN 0 ELSE ParseIntOr(number, 1)

\* EnhancedLogicParser.tryParseStep when it matches, and the assignments parse
\* makes after it
EnhancedTryParseStep(s, l, n) ==
    IF VonSchrittMatch(l)
    THEN [s EXCEPT
            !.pendingTransitions =
                Append(@, [fromStep |-> l.number, isOr |-> l.marker = "+",
                           conditions |-> <<>>]),
            !.pendingConditions = <<>>]
    ELSE LET f == EnhancedFinalizeCurrentStep(s)
             type == IF IsRestKeyword(l.keyword) THEN "RUST" ELSE "SCHRITT"
             newStep == [type |-> type,
                         number |-> EnhancedStepNumber(type, l.number),
                         description |-> l.text,
                         entryConditions |-> <<>>, exitConditions |-> <<>>,
                         transitions |-> f.pendingTransitions,
                         lineNumber |-> n]
         IN [f EXCEPT !.result.steps = Append(@, newStep),
                      !.pendingTransitions = <<>>,
                      !.pendingConditions = <<>>]

\* mutant: an OR condition joins the last group
EnhancedAddConditionToStepJoin(step, condition, isOr) ==
    LET groups == step.entryConditions
    IN [step EXCEPT
          !.entryConditions =
              IF Len(groups) = 0 THEN <<ConditionGroup("AND", <<condition>>)>>
              ELSE [groups EXCEPT ![Len(groups)].conditions = Append(@, condition)]]

\* EnhancedLogicParser.addConditionToStep
EnhancedAddConditionToStep(step, condition, isOr) ==
    LET groups == step.entryConditions
    IN [step EXCEPT
          !.entryConditions =
              IF isOr /\ Len(groups) > 0
              THEN Append(groups, ConditionGroup("OR", <<condition>>))
              ELSE IF Len(groups) = 0
              THEN <<ConditionGroup("AND", <<condition>>)>>
              ELSE [groups EXCEPT ![Len(groups)].conditions = Append(@, condition)]]

\* trimmedLine.includes('(') && trimmedLine.includes('SCHRITT')
EnhancedHasCrossRef(l) == HasCrossRefSyntax(l) /\ l.keyword = "SCHRITT"

\* isConditionLine of EnhancedLogicParser.tryParseCondition; lines of the
\* alphabet that get this far hold no negation, timer, '=' or ':'
EnhancedIsConditionLine(s, l) ==
    \/ l.marker # ""
    \/ l.indented /\ GetLastStep(s.result) # 0
    \/ GetLastStep(s.result) # 0 /\ EnhancedHasCrossRef(l)

\* /^(.+?)\s*\(([^)]+)\s+(SCHRITT|STAP|STEP)\s+([0-9+]+)\)\s*$/i on the
\* condition text: null, or description, program and parsed numbers
CrossRefMatch(l) ==
    IF HasCrossRefSyntax(l) /\ l.text # ""
          /\ ToUpperCase(l.keyword) \in StepKeywords /\ Len(l.steps) > 0
    THEN [description |-> l.text, program |-> l.program, steps |-> l.steps]
    ELSE NullCrossReference

\* this.crossReferences.set(`${program}:${steps.join('+')}`, {...})
CrossReferencesSet(refs, ref, n) ==
    LET key == ref.program \o ":" \o JoinPlus(ref.steps)
        entry == [key |-> key, program |-> ref.program, steps |-> ref.steps,
                  description |-> ref.description, lineNumber |-> n]
    IN IF \E i \in DOMAIN refs : refs[i].key = key
       THEN [i \in DOMAIN refs |-> IF refs[i].key = key THEN entry ELSE refs[i]]
       ELSE Append(refs, entry)

\* EnhancedLogicParser.tryParseCondition
EnhancedTryParseCondition(s, l, n) ==
    IF GetLastStep(s.result) = 0 /\ GetLastVariableDefinition(s.result) = 0
    THEN s
    ELSE IF ~EnhancedIsConditionLine(s, l) THEN s
    ELSE LET isOr == l.marker = "+"
             crossReference == CrossRefMatch(l)
             condition == [text |-> BodyText(l), negated |-> FALSE,
                           crossReference |-> crossReference,
                           lineNumber |-> n,
                           operator |-> IF isOr THEN "OR" ELSE "AND"]
             s1 == IF crossReference # NullCrossReference
                   THEN [s EXCEPT !.crossReferences = CrossReferencesSet(@, crossReference, n)]
                   ELSE s
             s2 == IF GetLastStep(s1.result) # 0
                   THEN [s1 EXCEPT
                           !.result.steps[GetLastStep(s1.result)] =
                               EnhancedAddConditionToStep(@, condition, isOr),
                           !.result.statistics.totalConditions = @ + 1]
                   ELSE [s1 EXCEPT !.pendingConditions = Append(@, condition)]
         IN IF Len(s2.pendingTransitions) > 0
            THEN [s2 EXCEPT !.pendingTransitions[Len(s2.pendingTransitions)].conditions =
                                Append(@, condition)]
            ELSE s2

\* the body of lines.forEach in EnhancedLogicParser.parse
EnhancedLogicParserLine(s, l, n) ==
    IF l.kind = "blank" THEN HandleEmptyLine(s)
    ELSE IF TryParseHeader(s.result, l).matched
    THEN [s EXCEPT !.result = TryParseHeader(s.result, l).result]
    ELSE IF TryParseSymbolik(l) THEN [s EXCEPT !.result.symbolikIDB = l.text]
    ELSE IF VariableMatch(l) THEN TryParseVariable(s, l, n, "EnhancedLogicParser")
    ELSE IF VonSchrittMatch(l) \/ EnhancedStepMatch(l) THEN EnhancedTryParseStep(s, l, n)
    ELSE EnhancedTryParseCondition(s, l, n)

\* EnhancedLogicParser.processStepLogic; implicit conditions are kept as the
\* step numbers they refer to, an undefined implicitFromStep as NoNumber
ProcessStepLogic(steps) ==
    [i \in DOMAIN steps |->
        LET step == steps[i]
            schritt == SelectSeq(steps, LAMBDA x : x.type = "SCHRITT")
        IN [type |-> step.type, number |-> step.number,
            description |-> step.description,
            entryConditions |-> step.entryConditions,
            exitConditions |-> step.exitConditions,
            transitions |->
                [k \in DOMAIN step.transitions |->
                    [fromStep |-> step.transitions[k].fromStep,
                     isOr |-> step.transitions[k].isOr,
                     conditions |-> step.transitions[k].conditions,
                     fromStepFound |->
                         step.type = "SCHRITT"
                         /\ \E j \in DOMAIN steps :
                               steps[j].number = step.transitions[k].fromStep]],
            lineNumber |-> step.lineNumber,
            implicitConditions |->
                IF step.type = "RUST"
                THEN [k \in DOMAIN schritt |-> schritt[k].number]
                ELSE <<>>,
            implicitFromStep |->
                IF step.type = "SCHRITT" /\ i > 1 /\ Len(step.transitions) = 0
                THEN steps[i - 1].number
                ELSE NoNumber]]

Diagnostic(type, n) == [type |-> type, lineNumber |-> n]

\* EnhancedLogicParser.validateCrossReferences: one warning per map entry
ValidateCrossReferences(res, refs) ==
    [res EXCEPT !.warnings =
        @ \o [i \in DOMAIN refs |-> Diagnostic("CROSS_REFERENCE", refs[i].lineNumber)]]

RECURSIVE SumTransitions(_)
SumTransitions(steps) ==
    IF steps = <<>> THEN 0
    ELSE Len(Head(steps).transitions) + SumTransitions(Tail(steps))

\* EnhancedLogicParser.calculateStatistics
EnhancedCalculateStatistics(res, refs) ==
    LET base == CalculateStatistics(res).statistics
    IN [res EXCEPT !.statistics =
          [totalSteps |-> base.totalSteps,
           totalConditions |-> base.totalConditions,
           totalVariables |-> base.totalVariables,
           externalReferences |-> base.externalReferences,
           complexityScore |-> base.complexityScore,
           rustSteps |-> Len(SelectSeq(res.steps, LAMBDA x : x.type = "RUST")),
           schrittSteps |-> Len(SelectSeq(res.steps, LAMBDA x : x.type = "SCHRITT")),
           nonSequentialTransitions |-> SumTransitions(res.steps),
           crossReferences |-> Len(refs)]]

\* the end of EnhancedLogicParser.parse, after the last line
EnhancedLogicParserFinish(s) ==
    LET f == FinalizeCurrentVariable(s)
        r1 == [f.result EXCEPT !.steps = ProcessStepLogic(@)]
        r2 == ValidateCrossReferences(r1, f.crossReferences)
    IN [f EXCEPT !.result = EnhancedCalculateStatistics(r2, f.crossReferences)]

(***************************************************************************)
(* UnifiedTextParser: normalizeText and applyValidation                    *)
(***************************************************************************)
\* The normalization is modelled on the texts whose lines it keeps apart: no
\* blank line, every declaration written with a description that holds no
\* keyword (an empty description only on the last line), Rest declarations
\* written without a number, and a VON line only straight above a Rest
\* declaration or a numbered step declaration.  On other texts its
\* multi-line regular expressions join or split further lines.
Normalizable(t) ==
    \A i \in DOMAIN t :
        /\ t[i].kind \in {"header", "symbolik", "variable", "decl", "cond", "von"}
        /\ t[i].kind = "decl" =>
              /\ t[i].marker = ""
              /\ t[i].text \notin KeywordTexts
              /\ t[i].text = "" => i = Len(t)
              /\ IsRestKeyword(t[i].keyword) => t[i].number = NoNumber
        /\ t[i].kind = "von" =>
              /\ t[i].marker \in {"", "+"}
              /\ i < Len(t)
              /\ t[i + 1].kind = "decl"
              /\ IsRestKeyword(t[i + 1].keyword) \/ t[i + 1].number # NoNumber

\* fixManualInputIssues trims every line; normalizeStepFormatting writes the
\* keyword of a declaration in upper case and numbers an unnumbered step 1
NormalizeLine(l) ==
    IF l.kind = "decl"
    THEN [l EXCEPT !.indented = FALSE,
                   !.keyword = ToUpperCase(@),
                   !.number = IF ~IsRestKeyword(l.keyword) /\ l.number = NoNumber
                              THEN 1 ELSE @]
    ELSE [l EXCEPT !.indented = FALSE]

\* normalizeStepFormatting on a VON line and the declaration under it: the
\* embedded-keyword rule splits '[+ ]VON <keyword> <n>' into the line
\* '[+ ]VON' and the declaration '<KEYWORD> <n>: ', and the step rule then
\* takes the line break after that declaration with its trailing \s*, so
\* the declaration under it becomes its description
NormalizeVonLine(l, under) ==
    <<Line("cond", FALSE, l.marker, "", NoNumber, "VON", "", <<>>),
      Line("decl", FALSE, "", ToUpperCase(l.keyword), l.number,
           LineText(NormalizeLine(under)), "", <<>>)>>

RECURSIVE NormalizeText(_)
NormalizeText(t) ==
    IF t = <<>> THEN <<>>
    ELSE IF Head(t).kind = "von"
    THEN NormalizeVonLine(t[1], t[2]) \o NormalizeText(Tail(Tail(t)))
    ELSE <<NormalizeLine(Head(t))>> \o NormalizeText(Tail(t))

HulpmerkerMaxConditions == 20

\* pattern.test(name) for the patterns and names of the model; the patterns
\* are three of DEFAULT_VALIDATION_RULES.groups
RegexTest(pattern, name) ==
    IF pattern = "^[^:]+\\s*=\\s*$" THEN name \in {"Var =", "TIJD ="}
    ELSE IF pattern = "^TIJD\\s*=" THEN name = "TIJD ="
    ELSE \* "^TIJD\\s*=\\s*[^=]+$"
         FALSE

\* patterns.some(pattern => pattern.test(name))
SomePatternMatches(patterns, name) ==
    \E k \in DOMAIN patterns : RegexTest(patterns[k], name)

NullGroup == "null"

\* index of the first group of rules.groups, from index i on, that is not
\* excluded and has a matching pattern; 0 when the loop ends without a return
RECURSIVE FirstMatchingGroup(_, _, _)
FirstMatchingGroup(groups, name, i) ==
    IF i > Len(groups) THEN 0
    ELSE IF SomePatternMatches(groups[i].excludePatterns, name)
    THEN FirstMatchingGroup(groups, name, i + 1)
    ELSE IF SomePatternMatches(groups[i].patterns, name) THEN i
    ELSE FirstMatchingGroup(groups, name, i + 1)

\* determineVariableGroup(name, rules); rules is Object.entries(rules.groups):
\* the groups in declaration order, a group without excludePatterns having
\* the empty list
DetermineVariableGroup(name, rules) ==
    IF name = "" THEN NullGroup
    ELSE LET i == FirstMatchingGroup(rules, name, 1)
         IN IF i = 0 THEN "hulpmerker" ELSE rules[i].groupName

\* validateVariableDefinition for the group hulpmerker
ValidateVariableDefinition(definition) ==
    [errors |-> IF Len(definition.conditions) = 0
                THEN <<Diagnostic("MISSING_CONDITIONS", definition.lineNumber)>>
                ELSE <<>>,
     warnings |-> IF Len(definition.conditions) > HulpmerkerMaxConditions
                  THEN <<Diagnostic("TOO_MANY_CONDITIONS", definition.lineNumber)>>
                  ELSE <<>>]

\* stepValidation[stepType].validation.allowsEntryConditions
AllowsEntryConditions(stepType) == stepType # "rust"

\* validateStepDefinition
ValidateStepDefinition(step) ==
    LET stepType == IF step.type = "RUST" THEN "rust" ELSE "schritt"
    IN [errors |-> IF Len(step.entryConditions) > 0 /\ ~AllowsEntryConditions(stepType)
                   THEN <<Diagnostic("INVALID_ENTRY_CONDITIONS", step.lineNumber)>>
                   ELSE <<>>,
        warnings |-> <<>>]

\* validateAllCrossReferences: the list stored in result.crossReferences; with
\* the default rules validateCrossReference reports nothing
ValidateAllCrossReferences(steps) ==
    Flatten([i \in DOMAIN steps |->
        Flatten([g \in DOMAIN steps[i].entryConditions |->
            LET cs == SelectSeq(steps[i].entryConditions[g].conditions,
                                LAMBDA c : c.crossReference # NullCrossReference)
            IN [k \in DOMAIN cs |->
                   [description |-> cs[k].crossReference.description,
                    program |-> cs[k].crossReference.program,
                    steps |-> cs[k].crossReference.steps,
                    lineNumber |-> cs[k].lineNumber,
                    step |-> steps[i].number]]])])

\* mutant: the error carries the line of the step first seen with the number
DuplicateStepErrorsFirstLine(steps) ==
    LET dup == SelectSeq([i \in DOMAIN steps |-> i],
                   LAMBDA i : /\ steps[i].type = "SCHRITT"
                              /\ \E j \in 1..(i - 1) :
                                    /\ steps[j].type = "SCHRITT"
                                    /\ steps[j].number = steps[i].number)
    IN [k \in DOMAIN dup |->
           Diagnostic("DUPLICATE_STEP",
               steps[CHOOSE j \in 1..(dup[k] - 1) :
                        /\ steps[j].type = "SCHRITT"
                        /\ steps[j].number = steps[dup[k]].number
                        /\ \A h \in 1..(j - 1) :
                              ~(steps[h].type = "SCHRITT"
                                /\ steps[h].number = steps[dup[k]].number)].lineNumber)]

\* validateStepLogicConsistency, the stepNumbers map: a SCHRITT step whose
\* number is already in the map is reported with its own line
DuplicateStepErrors(steps) ==
    LET dup == SelectSeq([i \in DOMAIN steps |-> i],
                   LAMBDA i : /\ steps[i].type = "SCHRITT"
                              /\ \E j \in 1..(i - 1) :
                                    /\ steps[j].type = "SCHRITT"
                                    /\ steps[j].number = steps[i].number)
    IN [k \in DOMAIN dup |-> Diagnostic("DUPLICATE_STEP", steps[dup[k]].lineNumber)]

\* Array.prototype.sort((a, b) => a.number - b.number): stable
RECURSIVE SortByNumber(_)
SortByNumber(steps) ==
    IF steps = <<>> THEN <<>>
    ELSE LET m == CHOOSE i \in DOMAIN steps :
                     /\ \A j \in DOMAIN steps : steps[i].number <= steps[j].number
                     /\ \A j \in 1..(i - 1) : steps[j].number # steps[i].number
         IN <<steps[m]>>
            \o SortByNumber([k \in 1..(Len(steps) - 1) |->
                                IF k < m THEN steps[k] ELSE steps[k + 1]])

\* validateStepLogicConsistency, gaps between sequential steps
MissingSequentialStepWarnings(steps) ==
    LET schrittSteps == SortByNumber(SelectSeq(steps, LAMBDA x : x.type = "SCHRITT"))
        gaps == SelectSeq([i \in 1..(Len(schrittSteps) - 1) |-> i + 1],
                    LAMBDA i : /\ schrittSteps[i].number # schrittSteps[i - 1].number + 1
                               /\ Len(schrittSteps[i].transitions) = 0)
    IN [k \in DOMAIN gaps |->
           Diagnostic("MISSING_SEQUENTIAL_STEP", schrittSteps[gaps[k]].lineNumber)]

\* validateStepLogicConsistency, VON SCHRITT references
InvalidVonSchrittErrors(steps) ==
    Flatten([i \in DOMAIN steps |->
        LET bad == SelectSeq(steps[i].transitions,
                       LAMBDA tr : ~\E j \in DOMAIN steps : steps[j].number = tr.fromStep)
        IN [k \in DOMAIN bad |-> Diagnostic("INVALID_VON_SCHRITT", steps[i].lineNumber)]])

\* UnifiedTextParser.applyValidation
ApplyValidation(res) ==
    LET vv == [i \in DOMAIN res.variables |-> ValidateVariableDefinition(res.variables[i])]
        sv == [i \in DOMAIN res.steps |-> ValidateStepDefinition(res.steps[i])]
    IN [programName |-> res.programName, functionBlock |-> res.functionBlock,
        symbolikIDB |-> res.symbolikIDB,
        steps |-> res.steps, variables |-> res.variables,
        statistics |-> res.statistics,
        crossReferences |-> ValidateAllCrossReferences(res.steps),
        errors |-> res.errors
                   \o Flatten([i \in DOMAIN vv |-> vv[i].errors])
                   \o Flatten([i \in DOMAIN sv |-> sv[i].errors])
                   \o DuplicateStepErrors(res.steps)
                   \o InvalidVonSchrittErrors(res.steps),
        warnings |-> res.warnings
                     \o Flatten([i \in DOMAIN vv |-> vv[i].warnings])
                     \o Flatten([i \in DOMAIN sv |-> sv[i].warnings])
                     \o MissingSequentialStepWarnings(res.steps)]

(***************************************************************************)
(* EnhancedParser, constructed with its default arguments                  *)
(***************************************************************************)
EnhancedParserEmptyResult ==
    [steps |-> <<>>, variables |-> <<>>, conditions |-> <<>>,
     crossReferences |-> <<>>, errors |-> <<>>, warnings |-> <<>>]

\* patterns.step on the trimmed line
ParseStepMatch(l) == l.kind = "decl" /\ l.marker = ""

\* EnhancedParser.parseStep
ParseStep(l, n) ==
    [type |-> ToUpperCase(l.keyword),
     number |-> IF l.number # NoNumber THEN l.number ELSE 0,
     description |-> l.text,
     lineNumber |-> n,
     conditions |-> <<>>]

\* patterns.variable on the trimmed line
ParseVariableMatch(l) == l.kind = "variable" /\ l.marker = ""

\* isConditionLine of EnhancedParser.parseCondition
ParseConditionMatch(l) ==
    l.indented \/ l.marker # "" \/ CrossRefMatch(l) # NullCrossReference

\* EnhancedParser.parseCondition when the line is a condition
ParseCondition(l, n) ==
    [text |-> BodyText(l),
     operator |-> IF l.marker = "+" THEN "OR" ELSE "AND",
     negated |-> FALSE,
     lineNumber |-> n,
     crossReference |-> CrossRefMatch(l)]

\* currentStep.conditions = [...pendingConditions]; result.steps.push(currentStep)
PushCurrentStep(s) ==
    IF s.currentStep # NullStep
    THEN [s EXCEPT !.result.steps =
                       Append(@, [s.currentStep EXCEPT !.conditions = s.pendingConditions])]
    ELSE s

\* the body of lines.forEach in EnhancedParser.parseText; parseVariable
\* throws in determineVariableGroup (validationRules.groups is undefined) and
\* the catch block records the line
EnhancedParserLine(s, l, n) ==
    IF l.kind = "blank" THEN s
    ELSE IF ParseStepMatch(l)
    THEN [PushCurrentStep(s) EXCEPT !.currentStep = ParseStep(l, n),
                                    !.pendingConditions = <<>>]
    ELSE IF ParseVariableMatch(l)
    THEN [s EXCEPT !.result.errors = Append(@, [line |-> n, text |-> LineText(l)])]
    ELSE IF s.currentStep # NullStep /\ ParseConditionMatch(l)
    THEN LET c == ParseCondition(l, n)
         IN [s EXCEPT !.pendingConditions = Append(@, c),
                      !.result.crossReferences =
                          IF c.crossReference # NullCrossReference
                          THEN Append(@, c.crossReference) ELSE @]
    ELSE s

\* the end of EnhancedParser.parseText, after the last line
EnhancedParserFinish(s) ==
    LET f == PushCurrentStep(s)
    IN [f EXCEPT !.result.conditions =
                     Flatten([i \in DOMAIN f.result.steps |-> f.result.steps[i].conditions])]

(***************************************************************************)
(* UnifiedTextParser.normalizeText on the characters of the text.  A text  *)
(* is the sequence of its characters over the alphabet                    *)
(*   "-"  "+"  ":"  " "  "\n"  "x" (a letter of no keyword)  "RUST" (the   *)
(*   Rest keyword, kept as one unit).                                      *)
(* On this alphabet normalizeLineEndings and normalizeEncoding find        *)
(* nothing to replace, and so do the rules written for digits, '=', tabs,  *)
(* parentheses, step keywords, VON, STORING, MELDING and TIJD; they are    *)
(* left out.  Every other rule is a String.replace with a global regular   *)
(* expression, modelled by ReplaceEach below.                              *)
(***************************************************************************)
IsWhitespace(c) == c \in {" ", "\n"}     \* \s
IsWordChar(c) == c \in {"x", "RUST"}     \* \w

\* index of the first character at or after i that is not whitespace
RECURSIVE SkipWhitespace(_, _)
SkipWhitespace(str, i) ==
    IF i > Len(str) \/ ~IsWhitespace(str[i]) THEN i ELSE SkipWhitespace(str, i + 1)

\* str[i], or "" past the end
CharAt(str, i) == IF i \in DOMAIN str THEN str[i] ELSE ""

\* ^ under the m flag
AtLineStart(str, i) == i = 1 \/ str[i - 1] = "\n"

NoMatch == [end |-> 0, out |-> <<>>]

\* the match of a regular expression that starts at index i: the index after
\* it and its replacement
RegexMatch(str, i, regex) ==
    LET j == SkipWhitespace(str, i)
    IN CASE regex = ":" ->                      \* /:/g -> ': '
              IF str[i] = ":" THEN [end |-> i + 1, out |-> <<":", " ">>] ELSE NoMatch
         [] regex = " {2,}" ->                  \* / {2,}/g -> ' '
              IF str[i] = " " /\ CharAt(str, i + 1) = " "
              THEN [end |-> CHOOSE e \in (i + 2)..(Len(str) + 1) :
                               /\ \A k \in i..(e - 1) : str[k] = " "
                               /\ CharAt(str, e) # " ",
                    out |-> <<" ">>]
              ELSE NoMatch
         [] regex = "\\s{3,}" ->                \* /\s{3,}/g -> '  '
              IF j - i >= 3 THEN [end |-> j, out |-> <<" ", " ">>] ELSE NoMatch
         [] regex = "\\s*:\\s*" ->              \* /\s*:\s*/g -> ': '
              IF CharAt(str, j) = ":"
              THEN [end |-> SkipWhitespace(str, j + 1), out |-> <<":", " ">>]
              ELSE NoMatch
         [] regex = "(\\w)\\s*:\\s*" ->         \* /(\w)\s*:\s*/g -> '$1: '
              IF IsWordChar(str[i]) /\ CharAt(str, SkipWhitespace(str, i + 1)) = ":"
              THEN [end |-> SkipWhitespace(str, SkipWhitespace(str, i + 1) + 1),
                    out |-> <<str[i], ":", " ">>]
              ELSE NoMatch
         [] regex = "^\\s*-\\s*" ->             \* /^\s*-\s*/gm -> '- '
              IF AtLineStart(str, i) /\ CharAt(str, j) = "-"
              THEN [end |-> SkipWhitespace(str, j + 1), out |-> <<"-", " ">>]
              ELSE NoMatch
         [] regex = "^\\s*\\+\\s*" ->           \* /^\s*\+\s*/gm -> '+ '
              IF AtLineStart(str, i) /\ CharAt(str, j) = "+"
              THEN [end |-> SkipWhitespace(str, j + 1), out |-> <<"+", " ">>]
              ELSE NoMatch
         [] OTHER ->                            \* /^\s*(RUST|RUHE|IDLE)\s*[:\(\.]?\s*/gmi
              IF AtLineStart(str, i) /\ CharAt(str, j) = "RUST"
              THEN LET k == SkipWhitespace(str, j + 1)
                   IN [end |-> IF CharAt(str, k) = ":" THEN SkipWhitespace(str, k + 1)
                               ELSE k,
                       out |-> <<"RUST", ":", " ">>]
              ELSE NoMatch

\* String.replace(regex, replacement) with the g flag, from index i on:
\* leftmost matches, one after the other
RECURSIVE ReplaceEach(_, _, _)
ReplaceEach(str, i, regex) ==
    IF i > Len(str) THEN <<>>
    ELSE LET m == RegexMatch(str, i, regex)
         IN IF m.end # 0 THEN m.out \o ReplaceEach(str, m.end, regex)
            ELSE <<str[i]>> \o ReplaceEach(str, i + 1, regex)

\* text.split('\n')
RECURSIVE SplitLines(_)
SplitLines(str) ==
    IF \A i \in DOMAIN str : str[i] # "\n" THEN <<str>>
    ELSE LET k == CHOOSE i \in DOMAIN str :
                     str[i] = "\n" /\ \A j \in 1..(i - 1) : str[j] # "\n"
         IN <<SubSeq(str, 1, k - 1)>> \o SplitLines(SubSeq(str, k + 1, Len(str)))

\* lines.join('\n')
RECURSIVE JoinLines(_)
JoinLines(lines) ==
    IF Len(lines) = 0 THEN <<>>
    ELSE IF Len(lines) = 1 THEN lines[1]
    ELSE lines[1] \o <<"\n">> \o JoinLines(Tail(lines))

\* String.trim
Trim(str) ==
    IF SkipWhitespace(str, 1) > Len(str) THEN <<>>
    ELSE SubSeq(str, SkipWhitespace(str, 1),
                CHOOSE j \in DOMAIN str :
                    ~IsWhitespace(str[j]) /\ \A k \in (j + 1)..Len(str) : IsWhitespace(str[k]))

\* removeExtraWhitespace
RemoveExtraWhitespace(str) ==
    LET lines == SplitLines(str)
    IN JoinLines([n \in DOMAIN lines |->
           IF Trim(lines[n]) # <<>>
           THEN SubSeq(lines[n], 1, SkipWhitespace(lines[n], 1) - 1) \o Trim(lines[n])
           ELSE <<>>])

\* removeWordFormatting
RemoveWordFormatting(str) == ReplaceEach(str, 1, "\\s{3,}")

\* fixWordImportIssues
FixWordImportIssues(str) ==
    ReplaceEach(ReplaceEach(ReplaceEach(str, 1, "^\\s*-\\s*"), 1, "\\s*:\\s*"),
                1, "^\\s*\\+\\s*")

\* fixManualInputIssues
FixManualInputIssues(str) ==
    LET lines == SplitLines(ReplaceEach(str, 1, ":"))
    IN ReplaceEach(JoinLines([n \in DOMAIN lines |-> Trim(lines[n])]), 1, " {2,}")

\* rustMatch = line.match(/^(.+?)\s+(RUST|RUHE|IDLE)\s*[:\(\.]?\s*(.*)$/i):
\* the lengths b of 'before' for which the rest of the pattern matches
RustMatchBefore(line) ==
    {b \in 1..Len(line) :
        /\ SkipWhitespace(line, b + 1) > b + 1
        /\ CharAt(line, SkipWhitespace(line, b + 1)) = "RUST"}

\* the lines normalizeStepFormatting pushes for one line
EmbeddedRestLines(line) ==
    IF RustMatchBefore(line) # {} /\ CharAt(Trim(line), 1) # "RUST"
    THEN LET b == CHOOSE x \in RustMatchBefore(line) : \A y \in RustMatchBefore(line) : x <= y
             before == SubSeq(line, 1, b)
             k == SkipWhitespace(line, SkipWhitespace(line, b + 1) + 1)
             a == IF CharAt(line, k) = ":" THEN SkipWhitespace(line, k + 1) ELSE k
             after == SubSeq(line, a, Len(line))
             isAfterPlus == Trim(before) # <<>> /\ Trim(before)[Len(Trim(before))] = "+"
         IN IF isAfterPlus THEN <<line>>
            ELSE <<Trim(before), <<"RUST", ":", " ">> \o after>>
    ELSE <<line>>

\* normalizeStepFormatting
NormalizeStepFormatting(str) ==
    LET lines == SplitLines(str)
        normalizedLines == Flatten([n \in DOMAIN lines |-> EmbeddedRestLines(lines[n])])
    IN ReplaceEach(ReplaceEach(ReplaceEach(JoinLines(normalizedLines),
           1, "^\\s*(RUST|RUHE|IDLE)\\s*[:\\(\\.]?\\s*"), 1, "(\\w)\\s*:\\s*"), 1, " {2,}")

\* normalizeWordImport
NormalizeWordImport(str) ==
    NormalizeStepFormatting(FixWordImportIssues(RemoveWordFormatting(str)))

\* normalizeManualInput
NormalizeManualInput(str) == NormalizeStepFormatting(FixManualInputIssues(str))

\* .replace(/^\n+/, '').replace(/\n+$/, '')
RECURSIVE StripNewlines(_)
StripNewlines(str) ==
    IF str # <<>> /\ str[1] = "\n" THEN StripNewlines(Tail(str))
    ELSE IF str # <<>> /\ str[Len(str)] = "\n" THEN StripNewlines(SubSeq(str, 1, Len(str) - 1))
    ELSE str

\* applyConsistencyRules
ApplyConsistencyRules(str) ==
    StripNewlines(ReplaceEach(ReplaceEach(str, 1, "^\\s*-\\s*"), 1, "^\\s*\\+\\s*"))

\* normalizeText(text, source), src the source
NormalizeSourceText(str, src) ==
    LET common == RemoveExtraWhitespace(str)
    IN ApplyConsistencyRules(
           IF src = "word" THEN NormalizeWordImport(common)
           ELSE IF src = "manual" THEN NormalizeManualInput(common)
           ELSE common)

(***************************************************************************)
(* FlexibleParser, constructed with its default arguments: parse calls     *)
(* EnhancedParser.parseText and then applyFlexibleValidation               *)
(***************************************************************************)
\* validateStepFlexibly
ValidateStepFlexibly(step) ==
    [errors |-> IF step.number < 0
                THEN <<Diagnostic("INVALID_STEP_NUMBER", step.lineNumber)>>
                ELSE <<>>,
     warnings |-> IF step.description = ""
                  THEN <<Diagnostic("EMPTY_STEP_DESCRIPTION", step.lineNumber)>>
                  ELSE <<>>]

\* validateCrossReferenceFlexibly; the cross-reference objects of
\* EnhancedParser carry no lineNumber
ValidateCrossReferenceFlexibly(crossRef) ==
    (IF crossRef.program = ""
     THEN <<Diagnostic("EMPTY_PROGRAM_REFERENCE", NoNumber)>> ELSE <<>>)
    \o (IF Len(crossRef.steps) = 0
        THEN <<Diagnostic("EMPTY_STEP_REFERENCE", NoNumber)>> ELSE <<>>)

\* validateVariableFlexibly
ValidateVariableFlexibly(variable) ==
    IF variable.name = ""
    THEN <<Diagnostic("EMPTY_VARIABLE_NAME", variable.lineNumber)>> ELSE <<>>

\* FlexibleParser.applyFlexibleValidation: {...result, errors: [], warnings: []}
\* filled by the three flexible validations
ApplyFlexibleValidation(res) ==
    LET sv == [i \in DOMAIN res.steps |-> ValidateStepFlexibly(res.steps[i])]
    IN [res EXCEPT
          !.errors =
              Flatten([i \in DOMAIN sv |-> sv[i].errors])
              \o Flatten([i \in DOMAIN res.variables |->
                              ValidateVariableFlexibly(res.variables[i])]),
          !.warnings =
              Flatten([i \in DOMAIN sv |-> sv[i].warnings])
              \o Flatten([i \in DOMAIN res.crossReferences |->
                              ValidateCrossReferenceFlexibly(res.crossReferences[i])])]

(***************************************************************************)
(* Inputs of the generator                                                 *)
(***************************************************************************)
Descriptions == {"", "a"}

SeqsUpTo(S, n) == UNION {[1..k -> S] : k \in 0..n}

\* step objects as the parsers and the ParseResult interface produce them;
\* EnhancedLogicParser tags sequential steps 'SCHRITT', LogicParser 'STAP'
GenStepChoices ==
    {[type |-> "RUST", number |-> 0, description |-> d] : d \in Descriptions}
    \cup {[type |-> t, number |-> k, description |-> d] :
             t \in {"STAP", "SCHRITT"}, k \in 1..MaxStepNumber, d \in Descriptions}

\* a Rest step (first or last) and n sequential steps numbered 1..n, for every
\* n the step-bit array admits
BandProgram(n, rustFirst) ==
    [i \in 1..(n + 1) |->
        IF rustFirst
        THEN IF i = 1 THEN [type |-> "RUST", number |-> 0, description |-> "a"]
             ELSE [type |-> "STAP", number |-> i - 1, description |-> "a"]
        ELSE IF i = n + 1 THEN [type |-> "RUST", number |-> 0, description |-> "a"]
             ELSE [type |-> "STAP", number |-> i, description |-> "a"]]

BandPrograms == {BandProgram(n, b) : n \in 0..StepBitsHigh, b \in BOOLEAN}

GenInputs ==
    {[present |-> FALSE, hasSteps |-> FALSE, functionBlock |-> "", steps |-> <<>>],
     [present |-> TRUE, hasSteps |-> FALSE, functionBlock |-> "", steps |-> <<>>]}
    \cup {[present |-> TRUE, hasSteps |-> TRUE, functionBlock |-> fbn, steps |-> st] :
             fbn \in {"", "FB2"}, st \in SeqsUpTo(GenStepChoices, MaxGenSteps)}
    \cup {[present |-> TRUE, hasSteps |-> TRUE, functionBlock |-> "FB2", steps |-> st] :
             st \in BandPrograms}

NoOutput == [kind |-> "none"]
IdleNetwork == NewNetwork(DocStartUid + 3, "t", RustBaseUid)

(***************************************************************************)
(* Input texts of the parsers                                              *)
(***************************************************************************)
MaxLines == 3           \* longest arbitrary text
MaxProgramSteps == 3    \* most sequential steps of a Rest-plus-steps program
MaxCondLines == 2       \* most condition lines under one declaration

HeaderLine == Line("header", FALSE, "", "", 1, "Main", "", <<>>)
BlankLine == Line("blank", FALSE, "", "", NoNumber, "", "", <<>>)
SymbolikLine == Line("symbolik", FALSE, "", "", NoNumber, "IDB_Main", "", <<>>)
VariableLine == Line("variable", FALSE, "", "", NoNumber, "Var", "", <<>>)
Decl(keyword, number, txt) == Line("decl", FALSE, "", keyword, number, txt, "", <<>>)
Von(marker, number) == Line("von", FALSE, marker, "SCHRITT", number, "", "", <<>>)
Cond(indented, marker) == Line("cond", indented, marker, "", NoNumber, "c", "", <<>>)
CrossRef(indented, marker, keyword) ==
    Line("cond", indented, marker, keyword, NoNumber, "Pump running", "Filler", <<3, 4>>)

StepNumbers == {NoNumber} \cup 0..MaxStepNumber

ProgramLines ==
    {HeaderLine, BlankLine, SymbolikLine, VariableLine, Decl("RUST", NoNumber, "a"),
     Von("", 1), Cond(FALSE, "-"), Cond(TRUE, "")}
    \cup {Decl("STAP", k, "a") : k \in StepNumbers}

\* one Rest declaration followed by N step declarations numbered 1..N
RestAndSteps(N) ==
    <<Decl("RUST", NoNumber, "a")>> \o [i \in 1..N |-> Decl("STAP", i, "a")]

ProgramTexts ==
    SeqsUpTo(ProgramLines, MaxLines) \cup {RestAndSteps(N) : N \in 2..MaxProgramSteps}

Markers == {"", "-", "+"}

CondLines ==
    {Cond(ind, m) : ind \in BOOLEAN, m \in Markers}
    \cup {CrossRef(ind, m, kw) : ind \in BOOLEAN, m \in Markers, kw \in StepKeywords}

\* one step declaration, with or without a program header above it, and
\* condition lines under it
CondTexts ==
    {hdr \o <<Decl("STAP", 1, "a")>> \o cs :
        hdr \in {<<>>, <<HeaderLine>>}, cs \in SeqsUpTo(CondLines, MaxCondLines)}

DeclKeywords == RestKeywords \cup StepKeywords \cup {"rust", "stap"}

DeclTexts ==
    {<<Line("decl", ind, "", kw, k, d, "", <<>>)>> :
        ind \in BOOLEAN, kw \in DeclKeywords, k \in StepNumbers,
        d \in Descriptions \cup KeywordTexts}

Parsers ==
    {"LogicParser", "EnhancedLogicParser", "EnhancedParser", "UnifiedTextParser",
     "FlexibleParser"}

\* the parsers that scan with EnhancedParser.parseText
ScansWithEnhancedParser(p) == p \in {"EnhancedParser", "FlexibleParser"}

\* the parsers whose parse validates the scanned result before returning it
ValidatesResult(p) == p \in {"UnifiedTextParser", "FlexibleParser"}

NoParseResult == [present |-> FALSE, hasSteps |-> FALSE, functionBlock |-> "", steps |-> <<>>]

\* no parser has been called
ParserIdle ==
    /\ parser = "none"
    /\ text = <<>>
    /\ code = <<>>
    /\ phase = "idle"
    /\ lineNumber = 0
    /\ result = CreateEmptyResult
    /\ currentStep = NullStep
    /\ pendingConditions = <<>>
    /\ pendingTransitions = <<>>
    /\ crossReferences = <<>>

(***************************************************************************)
(* Inputs of XmlElement                                                    *)
(***************************************************************************)
MaxXmlCalls == 3        \* add / addRaw / attr calls made on an element before toString

\* strings given as attribute values and text children
XmlTexts ==
    {<<"a">>, <<"&">>, <<"<", ">">>, <<"\"", "'">>, <<"&", "l", "t", ";">>}

\* fragments given to addRaw: serialized XML
RawFragments == {<<"<", "a", "/", ">">>, <<"&", "a", "m", "p", ";">>, <<"'", "&">>}

\* elements given to add
ChildElements ==
    {NewXmlElement(<<"C">>, <<>>),
     XmlAttr(NewXmlElement(<<"C">>, <<TextChild(<<"<", "&">>)>>), <<"k">>, <<"'">>)}

IdleElement == NewXmlElement(<<"E">>, <<>>)

\* no XmlElement is being built
XmlIdle ==
    /\ element = IdleElement
    /\ xmlOut = NoOutput

(***************************************************************************)
(* Inputs of normalizeText                                                 *)
(***************************************************************************)
MaxTextLen == 4         \* most characters of a text given to normalizeText

TextChars == {"-", "+", ":", " ", "\n", "x", "RUST"}

Sources == {"word", "manual"}

\* normalizeText has not been called
NormIdle ==
    /\ rawText = <<>>
    /\ source = "manual"
    /\ normalized = <<>>

(***************************************************************************)
(* Inputs of Document.toXml                                                *)
(***************************************************************************)
MaxSerializations == 2  \* toXml calls made on one Document

NoDocument == [kind |-> "none"]

\* no Document is held
DocIdle ==
    /\ document = NoDocument
    /\ docOut = <<>>

(***************************************************************************)
(* Inputs of determineVariableGroup                                        *)
(***************************************************************************)
MaxGroups == 2          \* most groups of rules.groups
MaxPatterns == 2        \* most patterns of one list of a group

VariableNames == {"", "Var =", "TIJD ="}

GroupNames == {"hulpmerker", "storing"}

GroupPatterns == {"^[^:]+\\s*=\\s*$", "^TIJD\\s*=", "^TIJD\\s*=\\s*[^=]+$"}

GroupConfigs ==
    {[groupName |-> g, patterns |-> ps, excludePatterns |-> xs] :
        g \in GroupNames,
        ps \in SeqsUpTo(GroupPatterns, MaxPatterns),
        xs \in SeqsUpTo(GroupPatterns, MaxPatterns)}

\* the keys of an object are distinct
RuleSets ==
    {r \in SeqsUpTo(GroupConfigs, MaxGroups) :
        \A i, j \in DOMAIN r : r[i].groupName = r[j].groupName => i = j}

\* determineVariableGroup has not been called
GroupIdle ==
    /\ variableName = ""
    /\ validationRules = <<>>
    /\ variableGroup = "pending"

\* the maxSize a RegexCache is constructed with when none is given
DefaultMaxSize == 1000

\* no call has been made on the RegexCache
NoCall == [op |-> "none"]

\* no RegexCache is in use
CacheIdle ==
    /\ cache = <<>>
    /\ maxSize = DefaultMaxSize
    /\ hitCount = 0
    /\ missCount = 0
    /\ returned = 0
    /\ lastCall = NoCall

UtilIdle == XmlIdle /\ NormIdle /\ DocIdle /\ GroupIdle /\ CacheIdle

(***************************************************************************)
(* Specification SpecGen: one call of generateTIAPortalXML                 *)
(***************************************************************************)
InitGen ==
    /\ parseResult \in GenInputs
    /\ genOut = NoOutput
    /\ net = IdleNetwork
    /\ netXml = NoOutput
    /\ ParserIdle
    /\ UtilIdle

Generate ==
    /\ genOut = NoOutput
    /\ genOut' = GenerateTIAPortalXML(parseResult)
    /\ UNCHANGED <<utilVars, parseResult, netVars, parserVars>>

NextGen == Generate

SpecGen == InitGen /\ [][NextGen]_vars

(***************************************************************************)
(* Specification SpecNet: a Network driven through addPart, addAccess,     *)
(* addLiteralBool, connect and toXml in any order                          *)
(***************************************************************************)
InitNet ==
    /\ parseResult = NoParseResult
    /\ genOut = NoOutput
    /\ net = IdleNetwork
    /\ netXml = NoOutput
    /\ ParserIdle
    /\ UtilIdle

NetAddPart ==
    /\ netXml = NoOutput
    /\ Len(net.parts) + Len(net.wires) < MaxNetOps
    /\ \E name \in PartNames : net' = AddPart(net, name)
    /\ UNCHANGED <<utilVars, genVars, netXml, parserVars>>

NetAddAccess ==
    /\ netXml = NoOutput
    /\ Len(net.parts) + Len(net.wires) < MaxNetOps
    /\ net' = AddAccess(net, "Stap", 0)
    /\ UNCHANGED <<utilVars, genVars, netXml, parserVars>>

NetAddLiteralBool ==
    /\ netXml = NoOutput
    /\ Len(net.parts) + Len(net.wires) < MaxNetOps
    /\ net' = AddLiteralBool(net, FALSE)
    /\ UNCHANGED <<utilVars, genVars, netXml, parserVars>>

\* ports callers name on a target: the next free `in${k}` of a gate, any
\* declared input of a latch or coil
TargetPorts(n, part) ==
    IF part.name = "A" THEN {InPort(PartInputCount(n, part.id) + 1)}
    ELSE PartInputs(part.name)

NetConnect ==
    /\ netXml = NoOutput
    /\ Len(net.parts) + Len(net.wires) < MaxNetOps
    /\ \E i, j \in DOMAIN net.parts :
          /\ net.parts[j].cls = "Part"
          /\ \E toPort \in TargetPorts(net, net.parts[j]), negated \in BOOLEAN :
                net' = Connect(net, net.parts[i].id,
                               IF net.parts[i].cls = "Part" THEN "out" ELSE NoPort,
                               net.parts[j].id, toPort, negated)
    /\ UNCHANGED <<utilVars, genVars, netXml, parserVars>>

\* the caller serializes once, after building
NetToXml ==
    /\ netXml = NoOutput
    /\ net' = NetworkToXml(net).obj
    /\ netXml' = [kind |-> "CompileUnit", unit |-> NetworkToXml(net).xml]
    /\ UNCHANGED <<utilVars, genVars, parserVars>>

NextNet == NetAddPart \/ NetAddAccess \/ NetAddLiteralBool \/ NetConnect \/ NetToXml

SpecNet == InitNet /\ [][NextNet]_vars

(***************************************************************************)
(* Specifications SpecProgram, SpecCond, SpecDecl: one parser is called on *)
(* a text, scans it line by line, and the returned program is handed to    *)
(* generateTIAPortalXML.  The three differ in the texts they start from.   *)
(***************************************************************************)
\* the state at the start of parse / parseText
Called(texts) ==
    /\ parser \in Parsers
    /\ text \in texts
    /\ parser = "UnifiedTextParser" => Normalizable(text)
    /\ code = IF parser = "UnifiedTextParser" THEN <<>> ELSE text
    /\ phase = IF parser = "UnifiedTextParser" THEN "text" ELSE "lines"
    /\ lineNumber = 0
    /\ result = IF ScansWithEnhancedParser(parser) THEN EnhancedParserEmptyResult
                ELSE CreateEmptyResult
    /\ currentStep = NullStep
    /\ pendingConditions = <<>>
    /\ pendingTransitions = <<>>
    /\ crossReferences = <<>>
    /\ parseResult = NoParseResult
    /\ genOut = NoOutput
    /\ net = IdleNetwork
    /\ netXml = NoOutput
    /\ UtilIdle

Scan ==
    [result |-> result, currentStep |-> currentStep,
     pendingConditions |-> pendingConditions,
     pendingTransitions |-> pendingTransitions,
     crossReferences |-> crossReferences]

SetScan(s) ==
    /\ result' = s.result
    /\ currentStep' = s.currentStep
    /\ pendingConditions' = s.pendingConditions
    /\ pendingTransitions' = s.pendingTransitions
    /\ crossReferences' = s.crossReferences

\* UnifiedTextParser.parse, step 1
Normalize ==
    /\ phase = "text"
    /\ code' = NormalizeText(text)
    /\ phase' = "lines"
    /\ UNCHANGED <<utilVars, parser, text, scanVars, genVars, netVars>>

\* one iteration of lines.forEach
ParseLine ==
    /\ phase = "lines"
    /\ lineNumber < Len(code)
    /\ LET n == lineNumber + 1
           l == code[n]
       IN SetScan(IF parser = "LogicParser" THEN LogicParserLine(Scan, l, n)
                  ELSE IF ScansWithEnhancedParser(parser) THEN EnhancedParserLine(Scan, l, n)
                  ELSE EnhancedLogicParserLine(Scan, l, n))
    /\ lineNumber' = lineNumber + 1
    /\ UNCHANGED <<utilVars, parser, text, code, phase, genVars, netVars>>

\* the statements of parse / parseText after the loop
FinishParse ==
    /\ phase = "lines"
    /\ lineNumber = Len(code)
    /\ SetScan(IF parser = "LogicParser" THEN LogicParserFinish(Scan)
               ELSE IF ScansWithEnhancedParser(parser) THEN EnhancedParserFinish(Scan)
               ELSE EnhancedLogicParserFinish(Scan))
    /\ phase' = "parsed"
    /\ UNCHANGED <<utilVars, parser, text, code, lineNumber, genVars, netVars>>

\* UnifiedTextParser.parse, step 3; FlexibleParser.parse after parseText
Validate ==
    /\ phase = "parsed"
    /\ ValidatesResult(parser)
    /\ result' = IF parser = "UnifiedTextParser" THEN ApplyValidation(result)
                 ELSE ApplyFlexibleValidation(result)
    /\ phase' = "validated"
    /\ UNCHANGED <<utilVars, parser, text, code, lineNumber, currentStep, pendingConditions,
                   pendingTransitions, crossReferences, genVars, netVars>>

\* generateTIAPortalXML(parseResult) on the object the parser returned
GenerateFromResult ==
    /\ \/ phase = "parsed" /\ ~ValidatesResult(parser)
       \/ phase = "validated"
    /\ parseResult' = [present |-> TRUE, hasSteps |-> TRUE,
                       functionBlock |-> IF ScansWithEnhancedParser(parser) THEN ""
                                         ELSE result.functionBlock,
                       steps |-> result.steps]
    /\ genOut' = GenerateTIAPortalXML(parseResult')
    /\ phase' = "generated"
    /\ UNCHANGED <<utilVars, parser, text, code, scanVars, netVars>>

NextParse == Normalize \/ ParseLine \/ FinishParse \/ Validate \/ GenerateFromResult

InitProgram == Called(ProgramTexts)
SpecProgram == InitProgram /\ [][NextParse]_vars

InitCond == Called(CondTexts)
SpecCond == InitCond /\ [][NextParse]_vars

InitDecl == Called(DeclTexts)
SpecDecl == InitDecl /\ [][NextParse]_vars

(***************************************************************************)
(* Reading a generated document                                            *)
(***************************************************************************)
Units == genOut.FB.Units

CountType(stepSeq, t) == Cardinality({i \in DOMAIN stepSeq : stepSeq[i].type = t})

UnitHasPart(u, name) ==
    \E i \in DOMAIN u.Parts : u.Parts[i].tag = "Part" /\ u.Parts[i].Name = name

\* the output of an AND gate of the unit is wired to an input of a part `name`
GateDrives(u, name) ==
    \E w \in DOMAIN u.Wires, g, t \in DOMAIN u.Parts :
        /\ u.Parts[g].tag = "Part" /\ u.Parts[g].Name = "A"
        /\ u.Parts[t].tag = "Part" /\ u.Parts[t].Name = name
        /\ u.Wires[w].fromUId = u.Parts[g].UId /\ u.Wires[w].fromName = "out"
        /\ u.Wires[w].toUId = u.Parts[t].UId

\* index of the step-bit access wired to the operand input of a part `name`
OperandIndices(u, name) ==
    {u.Parts[a].Index : a \in {a \in DOMAIN u.Parts :
        /\ u.Parts[a].tag = "Access"
        /\ \E w \in DOMAIN u.Wires, t \in DOMAIN u.Parts :
              /\ u.Parts[t].tag = "Part" /\ u.Parts[t].Name = name
              /\ u.Wires[w].fromUId = u.Parts[a].UId
              /\ u.Wires[w].toUId = u.Parts[t].UId
              /\ u.Wires[w].toName = "operand"}}

IsRestUnit(u) == u.Title.ID = RustBaseUid

\* C1: one Rest step and N >= 1 STAP steps give N+1 networks: one Rest
\* network, N-1 step networks whose AND gate drives a latch (Sr) and exactly
\* one, that of the last STAP step in declaration order, whose AND gate drives
\* a Coil.
C1_NetworkCount ==
    LET st == parseResult.steps
        normal == SelectSeq(st, IsStap)
        N == Len(normal)
    IN (genOut # NoOutput /\ parseResult.present /\ parseResult.hasSteps
          /\ CountType(st, "RUST") = 1 /\ N >= 1)
       => /\ genOut.kind = "Document"
          /\ Len(Units) = N + 1
          /\ {i \in DOMAIN Units : IsRestUnit(Units[i])} = {1}
          /\ GateDrives(Units[1], "Sr") /\ ~UnitHasPart(Units[1], "Coil")
          /\ \A k \in 1..(N - 1) :
                /\ GateDrives(Units[k + 1], "Sr")
                /\ ~UnitHasPart(Units[k + 1], "Coil")
                /\ OperandIndices(Units[k + 1], "Sr") = {normal[k].number}
          /\ GateDrives(Units[N + 1], "Coil")
          /\ ~UnitHasPart(Units[N + 1], "Sr")
          /\ OperandIndices(Units[N + 1], "Coil") = {normal[N].number}

C1_Witness ==
    /\ genOut.kind = "Document"
    /\ CountType(parseResult.steps, "RUST") = 1
    /\ CountType(parseResult.steps, "STAP") = 3
    /\ Len(Units) = 4

\* C2 as stated: every AND gate of a serialized network carries an emitted
\* cardinality equal to the number of wires whose target is the gate.
C2_EveryGateEmitsCount ==
    netXml # NoOutput =>
        \A i \in DOMAIN netXml.unit.Parts :
            LET p == netXml.unit.Parts[i]
                incoming == Cardinality({w \in DOMAIN netXml.unit.Wires :
                                            netXml.unit.Wires[w].toUId = p.UId})
            IN (p.tag = "Part" /\ p.Name = "A") => (p.hasCard /\ p.Card = incoming)

\* C2 amended: an AND gate with at least one incoming wire is serialized with
\* a cardinality equal to the number of wires whose target is the gate; a gate
\* with no incoming wire is serialized without a cardinality.
C2_GateCardinality ==
    netXml # NoOutput =>
        \A i \in DOMAIN netXml.unit.Parts :
            LET p == netXml.unit.Parts[i]
                incoming == Cardinality({w \in DOMAIN netXml.unit.Wires :
                                            netXml.unit.Wires[w].toUId = p.UId})
            IN (p.tag = "Part" /\ p.Name = "A") =>
                   IF incoming > 0 THEN p.hasCard /\ p.Card = incoming
                   ELSE ~p.hasCard

C2_Witness ==
    /\ netXml # NoOutput
    /\ \E i \in DOMAIN netXml.unit.Parts :
          /\ netXml.unit.Parts[i].Name = "A"
          /\ netXml.unit.Parts[i].hasCard
          /\ netXml.unit.Parts[i].Card = 2
    /\ \E i \in DOMAIN netXml.unit.Parts :
          netXml.unit.Parts[i].tag = "Access"

(***************************************************************************)
(* Identifiers of a generated document                                     *)
(***************************************************************************)
TextIds(t) == <<t.ID>> \o [i \in DOMAIN t.items |-> t.items[i].ID]

\* identifiers allocated by the network's own UidManager
UnitBandIds(u) ==
    TextIds(u.Title) \o TextIds(u.Comment)
    \o [i \in DOMAIN u.Parts |-> u.Parts[i].UId]
    \o [i \in DOMAIN u.Wires |-> u.Wires[i].UId]

\* identifiers allocated by the document's UidManager
DocumentIds ==
    <<genOut.FB.ID>> \o TextIds(genOut.FB.Comment) \o TextIds(genOut.FB.Title)
    \o [i \in DOMAIN Units |-> Units[i].ID]

AllIds == DocumentIds \o Flatten([i \in DOMAIN Units |-> UnitBandIds(Units[i])])

\* start and end (exclusive) of the band of the unit at position i
BandStart(i) ==
    IF IsRestUnit(Units[i]) THEN RustBaseUid
    ELSE LET first == IF IsRestUnit(Units[1]) THEN 2 ELSE 1
         IN StepBaseUid + StepBandWidth * (i - first)

BandEnd(i) == IF IsRestUnit(Units[i]) THEN StepBaseUid ELSE BandStart(i) + StepBandWidth

\* C3: all identifiers of the document are pairwise distinct, every
\* identifier of a network lies in that network's band (Rest: from 500 up to
\* the first step band; step network idx: from 1000+100*idx up to the next
\* band), and the document-level identifiers lie below every band.
C3_IdentifiersDistinct ==
    (genOut # NoOutput /\ genOut.kind = "Document")
    => /\ Cardinality(Range(AllIds)) = Len(AllIds)
       /\ \A i \in DOMAIN Units : \A k \in DOMAIN UnitBandIds(Units[i]) :
             /\ UnitBandIds(Units[i])[k] >= BandStart(i)
             /\ UnitBandIds(Units[i])[k] < BandEnd(i)
       /\ \A k \in DOMAIN DocumentIds : DocumentIds[k] < RustBaseUid

C3_Witness ==
    /\ genOut.kind = "Document"
    /\ CountType(parseResult.steps, "RUST") = 1
    /\ CountType(parseResult.steps, "STAP") = StepBitsHigh
    /\ Len(Units) = StepBitsHigh + 1

\* C4: generation fails exactly when there are no steps (parseResult
\* missing, steps missing or steps empty); the failure is a result
\* distinguishable from a generated document.
C4_FailsOnlyWithoutSteps ==
    genOut # NoOutput =>
        /\ genOut.kind \in {"NoStepsComment", "Document"}
        /\ (genOut.kind = "NoStepsComment")
             <=> (~parseResult.present \/ ~parseResult.hasSteps
                    \/ Len(parseResult.steps) = 0)

C4_Witness ==
    /\ genOut.kind = "NoStepsComment"
    /\ parseResult.present /\ parseResult.hasSteps

(***************************************************************************)
(* Reading a parsed program                                                *)
(***************************************************************************)
Returned == phase \in {"parsed", "validated", "generated"}

IsRestStep(st) == st.type \in RestKeywords
IsSequentialStep(st) == st.type \in StepKeywords

\* the condition groups of a step of LogicParser / EnhancedLogicParser
Groups(st) == IF parser = "LogicParser" THEN st.transitionConditions ELSE st.entryConditions

\* every condition the parser attached to the step
StepConditions(st) ==
    IF ScansWithEnhancedParser(parser) THEN st.conditions
    ELSE Flatten([g \in DOMAIN Groups(st) |-> Groups(st)[g].conditions])

\* the label of the k-th step in the interface of the generated block
StepLabel(k) == genOut.FB.Interface.Static[1].subelements[k].Comment

\* C5: a Rest declaration followed by N >= 2 step declarations numbered
\* 1..N, parsed by UnifiedTextParser and handed to the generator, gives
\* totalSteps = N+1, no errors, and a document of N+1 compile units: the
\* Rest network first, a latch and no coil in units 2..N, a coil in the last.
C5_EndToEnd ==
    \A N \in 2..MaxProgramSteps :
        (phase = "generated" /\ parser = "UnifiedTextParser" /\ text = RestAndSteps(N))
        => /\ result.statistics.totalSteps = N + 1
           /\ Len(result.errors) = 0
           /\ genOut.kind = "Document"
           /\ Len(Units) = N + 1
           /\ IsRestUnit(Units[1])
           /\ \A k \in 2..N : UnitHasPart(Units[k], "Sr") /\ ~UnitHasPart(Units[k], "Coil")
           /\ UnitHasPart(Units[N + 1], "Coil")

\* the sequential steps of the validated program that repeat an earlier number
DuplicateSteps ==
    {i \in DOMAIN result.steps :
        /\ result.steps[i].type = "SCHRITT"
        /\ \E j \in 1..(i - 1) : /\ result.steps[j].type = "SCHRITT"
                                 /\ result.steps[j].number = result.steps[i].number}

DuplicateErrorLines ==
    LET e == SelectSeq(result.errors, LAMBDA d : d.type = "DUPLICATE_STEP")
    IN [k \in DOMAIN e |-> e[k].lineNumber]

\* C6: after validation every sequential step whose number repeats that of
\* an earlier sequential step has exactly one DUPLICATE_STEP error carrying
\* its line number, and a sequential step that repeats no earlier number has
\* none.
C6_DuplicateStepErrors ==
    (parser = "UnifiedTextParser" /\ phase \in {"validated", "generated"})
    => /\ \A i \in DOMAIN result.steps :
             result.steps[i].type = "SCHRITT" =>
                 Cardinality({k \in DOMAIN DuplicateErrorLines :
                                 DuplicateErrorLines[k] = result.steps[i].lineNumber})
                   = IF i \in DuplicateSteps THEN 1 ELSE 0
       /\ Len(DuplicateErrorLines) = Cardinality(DuplicateSteps)

C6_Witness ==
    /\ parser = "UnifiedTextParser" /\ phase = "validated"
    /\ Len(result.steps) = 3
    /\ Cardinality(DuplicateSteps) = 1
    /\ \E i \in DuplicateSteps : i = 3 /\ result.steps[1].number = result.steps[3].number
    /\ result.steps[2].type = "SCHRITT"

\* C7: a program returned by a parser has at most one Rest step, that step
\* has number 0, and no two sequential steps carry the same number.
C7_ProgramInvariant ==
    Returned =>
        /\ Cardinality({i \in DOMAIN result.steps : IsRestStep(result.steps[i])}) <= 1
        /\ \A i \in DOMAIN result.steps :
              IsRestStep(result.steps[i]) => result.steps[i].number = 0
        /\ \A i, j \in DOMAIN result.steps :
              (i < j /\ IsSequentialStep(result.steps[i]) /\ IsSequentialStep(result.steps[j]))
              => result.steps[i].number # result.steps[j].number

C9_CrossReferenceParsed ==
    (/\ Returned /\ parser \in {"EnhancedLogicParser", "EnhancedParser"}
     /\ Len(text) > 0 /\ text[1].kind = "header")
    => \A i \in DOMAIN text :
          (/\ text[i].kind = "cond" /\ text[i].program # ""
           /\ ToUpperCase(text[i].keyword) \in StepKeywords
           /\ \E j \in 1..(i - 1) : text[j].kind = "decl")
          => \E k \in DOMAIN result.steps :
                /\ result.steps[k].lineNumber < i
                /\ \A j \in (result.steps[k].lineNumber + 1)..(i - 1) : text[j].kind # "decl"
                /\ \E c \in DOMAIN StepConditions(result.steps[k]) :
                      LET cond == StepConditions(result.steps[k])[c]
                      IN /\ cond.lineNumber = i
                         /\ cond.crossReference.program = text[i].program
                         /\ cond.crossReference.steps = text[i].steps

\* a declaration line as the claim takes it: a Rest keyword without a number
\* or a step keyword with a number, and a description that names no keyword
ValidDeclaration(l) ==
    /\ l.kind = "decl" /\ l.marker = ""
    /\ l.text \notin KeywordTexts
    /\ IF IsRestKeyword(l.keyword) THEN l.number = NoNumber ELSE l.number # NoNumber

WrittenLabel(l) ==
    (IF IsRestKeyword(l.keyword) THEN "RUST" ELSE "STAP " \o ToString(l.number))
    \o ":" \o (IF l.text = "" THEN "" ELSE " " \o l.text)

\* C10: a valid declaration line parses to a step whose type, number and
\* description are those written on the line, and the label the generator
\* emits for the step denotes the same triple.
C10_DeclarationRoundTrip ==
    (/\ phase = "generated" /\ parser \in {"LogicParser", "EnhancedLogicParser"}
     /\ Len(text) = 1 /\ ValidDeclaration(text[1]))
    => /\ Len(result.steps) = 1
       /\ IsRestStep(result.steps[1]) = IsRestKeyword(text[1].keyword)
       /\ result.steps[1].number =
              IF IsRestKeyword(text[1].keyword) THEN 0 ELSE text[1].number
       /\ result.steps[1].description = text[1].text
       /\ genOut.kind = "Document"
       /\ StepLabel(1) = WrittenLabel(text[1])

(***************************************************************************)
(* Lines no rule of the parser takes, and the diagnostics kept             *)
(***************************************************************************)
\* the line is taken by one of the line rules of the parser scanning it:
\* header, symbolic IDB, variable, step / Rest declaration, VON transition
\* or condition
Recognized(s, l) ==
    IF parser = "LogicParser"
    THEN \/ TryParseHeader(s.result, l).matched
         \/ TryParseSymbolik(l) \/ VariableMatch(l) \/ LogicStepMatch(l)
         \/ GetLastStep(s.result) # 0 \/ GetLastVariableDefinition(s.result) # 0
    ELSE IF ScansWithEnhancedParser(parser)
    THEN \/ ParseStepMatch(l) \/ ParseVariableMatch(l)
         \/ s.currentStep # NullStep /\ ParseConditionMatch(l)
    ELSE \/ TryParseHeader(s.result, l).matched
         \/ TryParseSymbolik(l) \/ VariableMatch(l)
         \/ VonSchrittMatch(l) \/ EnhancedStepMatch(l)
         \/ /\ GetLastStep(s.result) # 0 \/ GetLastVariableDefinition(s.result) # 0
            /\ EnhancedIsConditionLine(s, l)

\* C11: scanning a non-empty line that is written as plain text (no header,
\* symbolic IDB, declaration, VON transition or variable) and that the parser
\* does not take as a condition either adds exactly one warning to the
\* result, and that warning carries the raw text of the line and its line
\* number.
C11_UnrecognizedLineWarned ==
    [][(/\ phase = "lines" /\ lineNumber' = lineNumber + 1
        /\ code[lineNumber + 1].kind = "cond"
        /\ ~Recognized(Scan, code[lineNumber + 1]))
       => /\ Len(result'.warnings) = Len(result.warnings) + 1
          /\ LET w == result'.warnings[Len(result'.warnings)]
             IN /\ w.lineNumber = lineNumber + 1
                /\ "text" \in DOMAIN w
                /\ w.text = LineText(code[lineNumber + 1])]_vars

\* C12: parse returns only after every line was scanned, and no step of the
\* scan or of the validation after it removes a diagnostic: the errors and
\* the warnings recorded so far stay, in order, at the head of the lists of
\* the result.
C12_DiagnosticsKept ==
    [][/\ phase' \in {"parsed", "validated"} => lineNumber' = Len(code')
       /\ phase # "idle" =>
             /\ Len(result'.errors) >= Len(result.errors)
             /\ SubSeq(result'.errors, 1, Len(result.errors)) = result.errors
             /\ Len(result'.warnings) >= Len(result.warnings)
             /\ SubSeq(result'.warnings, 1, Len(result.warnings)) = result.warnings]_vars

(***************************************************************************)
(* Specification SpecXml: an XmlElement is constructed, driven through     *)
(* add, addRaw and attr in any order, and serialized                       *)
(***************************************************************************)
XmlCalls(el) == Len(el.attributes) + Len(el.children)

InitXml ==
    /\ parseResult = NoParseResult
    /\ genOut = NoOutput
    /\ net = IdleNetwork
    /\ netXml = NoOutput
    /\ ParserIdle
    /\ NormIdle
    /\ DocIdle
    /\ GroupIdle
    /\ CacheIdle
    /\ element \in {NewXmlElement(<<"E">>, cs) :
                       cs \in {<<>>} \cup {<<TextChild(t)>> : t \in XmlTexts}}
    /\ xmlOut = NoOutput

ElementAdd ==
    /\ xmlOut = NoOutput
    /\ XmlCalls(element) < MaxXmlCalls
    /\ \E t \in XmlTexts : element' = XmlAdd(element, TextChild(t))
    /\ UNCHANGED <<genVars, netVars, parserVars, normVars, docVars, groupVars, cacheVars, xmlOut>>

ElementAddElement ==
    /\ xmlOut = NoOutput
    /\ XmlCalls(element) < MaxXmlCalls
    /\ \E e \in ChildElements : element' = XmlAdd(element, ElementChild(e))
    /\ UNCHANGED <<genVars, netVars, parserVars, normVars, docVars, groupVars, cacheVars, xmlOut>>

ElementAddRaw ==
    /\ xmlOut = NoOutput
    /\ XmlCalls(element) < MaxXmlCalls
    /\ \E x \in RawFragments : element' = XmlAddRaw(element, x)
    /\ UNCHANGED <<genVars, netVars, parserVars, normVars, docVars, groupVars, cacheVars, xmlOut>>

ElementAttr ==
    /\ xmlOut = NoOutput
    /\ XmlCalls(element) < MaxXmlCalls
    /\ \E key \in {<<"k">>, <<"n">>}, value \in XmlTexts :
          element' = XmlAttr(element, key, value)
    /\ UNCHANGED <<genVars, netVars, parserVars, normVars, docVars, groupVars, cacheVars, xmlOut>>

\* element.toString(pretty): level defaults to 0
ElementToString ==
    /\ xmlOut = NoOutput
    /\ \E pretty \in BOOLEAN :
          xmlOut' = [kind |-> "String", pretty |-> pretty,
                     pieces |-> ToStringPieces(element, pretty, 0),
                     str |-> XmlToString(element, pretty, 0)]
    /\ UNCHANGED <<genVars, netVars, parserVars, normVars, docVars, groupVars, cacheVars, element>>

NextXml == ElementAdd \/ ElementAddElement \/ ElementAddRaw \/ ElementAttr \/ ElementToString

SpecXml == InitXml /\ [][NextXml]_vars

\* the character as XML character data
Entity(c) ==
    CASE c = "&" -> <<"&", "a", "m", "p", ";">>
      [] c = "<" -> <<"&", "l", "t", ";">>
      [] c = ">" -> <<"&", "g", "t", ";">>
      [] c = "\"" -> <<"&", "q", "u", "o", "t", ";">>
      [] c = "'" -> <<"&", "a", "p", "o", "s", ";">>
      [] OTHER -> <<c>>

\* every character of the string escaped once
EscapedOnce(str) == Flatten([i \in DOMAIN str |-> Entity(str[i])])

\* the strings an element was given, in document order: its attribute
\* values, then its children, the strings of a child element in its place
RECURSIVE GivenStrings(_)
GivenStrings(el) ==
    [i \in DOMAIN el.attributes |-> [kind |-> "attribute", of |-> el.attributes[i].value]]
    \o Flatten([i \in DOMAIN el.children |->
           LET child == el.children[i]
           IN IF child.isElement THEN GivenStrings(child.content)
              ELSE <<[kind |-> IF child.isRaw THEN "raw" ELSE "text",
                      of |-> child.content]>>])

\* C13: in pretty and in compact mode, the string toString returns holds, in
\* document order between the markup, every attribute value and every text
\* child with each of its characters escaped exactly once (& < > " ' as
\* entities, any other character as it is), and every fragment added with
\* addRaw unchanged.
C13_EscapedExactlyOnce ==
    xmlOut.kind = "String" =>
        LET given == SelectSeq(xmlOut.pieces, LAMBDA p : p.kind # "markup")
        IN /\ [i \in DOMAIN given |-> [kind |-> given[i].kind, of |-> given[i].of]]
                 = GivenStrings(element)
           /\ \A i \in DOMAIN given :
                 given[i].str = IF given[i].kind = "raw" THEN given[i].of
                                ELSE EscapedOnce(given[i].of)
           /\ xmlOut.str = Flatten([i \in DOMAIN xmlOut.pieces |-> xmlOut.pieces[i].str])

\* an element with a quoted attribute value, a text child that reads like an
\* entity and a raw fragment holding an ampersand was serialized compactly
C13_Witness ==
    /\ xmlOut.kind = "String" /\ ~xmlOut.pretty
    /\ \E i \in DOMAIN element.attributes : element.attributes[i].value = <<"\"", "'">>
    /\ \E i \in DOMAIN element.children :
          /\ ~element.children[i].isElement /\ ~element.children[i].isRaw
          /\ element.children[i].content = <<"&", "l", "t", ";">>
    /\ \E i \in DOMAIN element.children :
          /\ element.children[i].isRaw
          /\ element.children[i].content = <<"'", "&">>

(***************************************************************************)
(* Specification SpecNormalize: normalizeText is called on a text and then *)
(* on the text it returned, with the same source                           *)
(***************************************************************************)
InitNormalize ==
    /\ parseResult = NoParseResult
    /\ genOut = NoOutput
    /\ net = IdleNetwork
    /\ netXml = NoOutput
    /\ ParserIdle
    /\ XmlIdle
    /\ DocIdle
    /\ GroupIdle
    /\ CacheIdle
    /\ rawText \in SeqsUpTo(TextChars, MaxTextLen)
    /\ source \in Sources
    /\ normalized = <<>>

NormalizeRaw ==
    /\ normalized = <<>>
    /\ normalized' = <<NormalizeSourceText(rawText, source)>>
    /\ UNCHANGED <<genVars, netVars, parserVars, xmlVars, docVars, groupVars, cacheVars, rawText,
                   source>>

NormalizeNormalized ==
    /\ Len(normalized) = 1
    /\ normalized' = Append(normalized, NormalizeSourceText(normalized[1], source))
    /\ UNCHANGED <<genVars, netVars, parserVars, xmlVars, docVars, groupVars, cacheVars, rawText,
                   source>>

NextNormalize == NormalizeRaw \/ NormalizeNormalized

SpecNormalize == InitNormalize /\ [][NextNormalize]_vars

\* C14: for both sources, normalizing the text normalizeText returned gives
\* that text again.
C14_NormalizeIdempotent ==
    Len(normalized) = 2 => normalized[2] = normalized[1]

(***************************************************************************)
(* Specification SpecDoc: the Document generateTIAPortalXML has built for  *)
(* a program is serialized, and serialized again                           *)
(***************************************************************************)
InitDoc ==
    /\ parseResult \in {pr \in GenInputs : GenerateTIAPortalXML(pr).kind = "Document"}
    /\ genOut = NoOutput
    /\ net = IdleNetwork
    /\ netXml = NoOutput
    /\ ParserIdle
    /\ XmlIdle
    /\ NormIdle
    /\ GroupIdle
    /\ CacheIdle
    /\ document = BuildFunctionBlock(parseResult)
    /\ docOut = <<>>

\* Document.toXml
DocumentToXml ==
    /\ Len(docOut) < MaxSerializations
    /\ docOut' = Append(docOut, [kind |-> "Document", FB |-> FunctionBlockToXml(document)])
    /\ document' = FunctionBlockAfterToXml(document)
    /\ UNCHANGED <<genVars, netVars, parserVars, xmlVars, normVars, groupVars, cacheVars>>

NextDoc == DocumentToXml

SpecDoc == InitDoc /\ [][NextDoc]_vars

\* the counters of the UidManagers of a Document: the document's own and one
\* per network
Counters(fb) == <<fb.uid>> \o [i \in DOMAIN fb.networks |-> fb.networks[i].uid]

\* C15: serializing a Document takes no identifier from any UidManager, and
\* every serialization of the same Document emits the same identifiers (the
\* same document) as the first.
C15_SerializationKeepsIdentifiers ==
    [][(Len(docOut') = Len(docOut) + 1)
       => /\ Counters(document') = Counters(document)
          /\ docOut'[Len(docOut')] = docOut'[1]]_vars


(***************************************************************************)
(* Specification SpecGroup: one call of determineVariableGroup             *)
(***************************************************************************)
InitGroup ==
    /\ parseResult = NoParseResult
    /\ genOut = NoOutput
    /\ net = IdleNetwork
    /\ netXml = NoOutput
    /\ ParserIdle
    /\ XmlIdle
    /\ NormIdle
    /\ DocIdle
    /\ CacheIdle
    /\ variableName \in VariableNames
    /\ validationRules \in RuleSets
    /\ variableGroup = "pending"

DetermineGroup ==
    /\ variableGroup = "pending"
    /\ variableGroup' = DetermineVariableGroup(variableName, validationRules)
    /\ UNCHANGED <<genVars, netVars, parserVars, xmlVars, normVars, docVars, cacheVars,
                   variableName, validationRules>>

NextGroup == DetermineGroup

SpecGroup == InitGroup /\ [][NextGroup]_vars

\* the group has an include pattern that matches the name
Included(groupConfig) == SomePatternMatches(groupConfig.patterns, variableName)

\* the group has an exclude pattern that matches the name
Excluded(groupConfig) == SomePatternMatches(groupConfig.excludePatterns, variableName)

\* the groups that are included and not excluded
Qualifying ==
    {i \in DOMAIN validationRules :
        Included(validationRules[i]) /\ ~Excluded(validationRules[i])}

\* C19: determineVariableGroup returns the first group, in declaration
\* order, that has a matching include pattern and no matching exclude
\* pattern; it never returns a group that has a matching exclude pattern;
\* when no group qualifies it returns the default group hulpmerker.
C19_FirstQualifyingGroup ==
    variableGroup # "pending" =>
        /\ Qualifying # {} =>
              variableGroup =
                  validationRules[CHOOSE i \in Qualifying :
                                      \A j \in Qualifying : i <= j].groupName
        /\ \A i \in DOMAIN validationRules :
              Excluded(validationRules[i]) => variableGroup # validationRules[i].groupName
        /\ Qualifying = {} => variableGroup = "hulpmerker"

(***************************************************************************)
(* Steps and the lines under them                                          *)
(***************************************************************************)
\* the parsers whose lines.forEach is that of EnhancedLogicParser.parse
ScansWithEnhancedLogicParser(p) == p \in {"EnhancedLogicParser", "UnifiedTextParser"}

\* line number of the declaration after step i, or one past the last line
NextDeclaration(i) ==
    IF i < Len(result.steps) THEN result.steps[i + 1].lineNumber ELSE Len(code) + 1

\* the indented condition lines between the declaration of step i and the
\* next declaration: tryParseCondition records each of them
ConditionLinesUnder(i) ==
    {n \in (result.steps[i].lineNumber + 1)..(NextDeclaration(i) - 1) :
        code[n].kind = "cond" /\ code[n].indented}

\* C16: once EnhancedLogicParser.parse has returned, a step that is followed
\* by condition lines before the next step declaration (or the end of the
\* input, for the last step) has non-empty exitConditions.
C16_ExitConditionsCollected ==
    (phase = "parsed" /\ ScansWithEnhancedLogicParser(parser))
        => \A i \in DOMAIN result.steps :
              ConditionLinesUnder(i) # {} => result.steps[i].exitConditions # <<>>


\* the parsers that inherit or call LogicParser.tryParseVariable
UsesLogicTryParseVariable(p) ==
    p \in {"LogicParser", "EnhancedLogicParser", "UnifiedTextParser"}

\* C17: when a step is open, scanning a line of the form "name =" creates no
\* standalone variable: result.variables is unchanged.
C17_NoVariableUnderOpenStep ==
    [][(/\ phase = "lines" /\ lineNumber' = lineNumber + 1
        /\ UsesLogicTryParseVariable(parser)
        /\ GetLastStep(result) # 0
        /\ code[lineNumber + 1].kind = "variable")
       => result'.variables = result.variables]_vars


\* the predecessors named by a list of transitions, in order
FromSteps(transitions) == [k \in DOMAIN transitions |-> transitions[k].fromStep]

\* C18: in EnhancedLogicParser.parse every VON-STEP line appends its
\* predecessor to the pending list; a step declaration receives the pending
\* predecessors in input order as its transitions, leaves the transitions of
\* the steps before it alone and empties the pending list.
C18_PendingTransitionsAttached ==
    [][(/\ phase = "lines" /\ lineNumber' = lineNumber + 1
        /\ ScansWithEnhancedLogicParser(parser))
       => LET l == code[lineNumber + 1]
          IN /\ l.kind = "von" =>
                    FromSteps(pendingTransitions')
                        = Append(FromSteps(pendingTransitions), l.number)
             /\ Len(result'.steps) = Len(result.steps) + 1 =>
                    /\ FromSteps(result'.steps[Len(result'.steps)].transitions)
                           = FromSteps(pendingTransitions)
                    /\ pendingTransitions' = <<>>
                    /\ \A i \in DOMAIN result.steps :
                           result'.steps[i].transitions = result.steps[i].transitions]_vars


(***************************************************************************)
(* The Rest network of a generated document                                *)
(***************************************************************************)
RestUnit == Units[CHOOSE i \in DOMAIN Units : IsRestUnit(Units[i])]

\* the part of the unit with the given name
PartNamed(u, name) ==
    u.Parts[CHOOSE i \in DOMAIN u.Parts : u.Parts[i].tag = "Part" /\ u.Parts[i].Name = name]

\* a wire of the unit runs from a step-bit access with the given index to the
\* given input of the part
BitWired(u, index, part, port) ==
    \E w \in DOMAIN u.Wires, a \in DOMAIN u.Parts :
        /\ u.Parts[a].tag = "Access" /\ u.Parts[a].Component = "Stap"
        /\ u.Parts[a].Index = index
        /\ u.Wires[w].fromUId = u.Parts[a].UId
        /\ u.Wires[w].toUId = part.UId /\ u.Wires[w].toName = port

\* C20: in the Rest network generated for N sequential steps, N up to the 31
\* the step-bit array admits, the AND gate has exactly N incoming wires, one
\* from each sequential step's bit, and each of its N inputs is marked
\* negated; the gate output is wired to the latch set input, the latch reset
\* input is wired from the first sequential step's bit and the latch operand
\* is the step bit with index 0.
C20_RestNetworkWiring ==
    (/\ genOut.kind = "Document"
     /\ \E i \in DOMAIN parseResult.steps : parseResult.steps[i].type = "RUST"
     /\ CountType(parseResult.steps, "STAP") <= StepBitsHigh)
    => LET u == RestUnit
           gate == PartNamed(u, "A")
           latch == PartNamed(u, "Sr")
           sequential == SelectSeq(parseResult.steps, IsStap)
           N == Len(sequential)
       IN /\ Cardinality({w \in DOMAIN u.Wires : u.Wires[w].toUId = gate.UId}) = N
          /\ \A k \in 1..N : BitWired(u, sequential[k].number, gate, InPort(k))
          /\ gate.Negated = {InPort(k) : k \in 1..N}
          /\ \E w \in DOMAIN u.Wires :
                /\ u.Wires[w].fromUId = gate.UId /\ u.Wires[w].fromName = "out"
                /\ u.Wires[w].toUId = latch.UId /\ u.Wires[w].toName = "s"
          /\ N >= 1 => BitWired(u, sequential[1].number, latch, "r1")
          /\ OperandIndices(u, "Sr") = {0}


(***************************************************************************)
(* The networks of the sequential steps                                    *)
(***************************************************************************)
\* the unit generated for the idx-th sequential step
StepUnit(idx) == Units[CHOOSE i \in DOMAIN Units : Units[i].Title.ID = StepBase(idx)]

\* a wire of the unit runs from a literal constant to the given input of the part
LiteralWired(u, part, port) ==
    \E w \in DOMAIN u.Wires, a \in DOMAIN u.Parts :
        /\ u.Parts[a].tag = "Access" /\ u.Parts[a].Scope = "LiteralConstant"
        /\ u.Wires[w].fromUId = u.Parts[a].UId
        /\ u.Wires[w].toUId = part.UId /\ u.Wires[w].toName = port

\* a wire of the unit runs from the output of the gate to the given input of the part
GateWired(u, gate, part, port) ==
    \E w \in DOMAIN u.Wires :
        /\ u.Wires[w].fromUId = gate.UId /\ u.Wires[w].fromName = "out"
        /\ u.Wires[w].toUId = part.UId /\ u.Wires[w].toName = port

\* C21: in the network of the idx-th sequential step n the AND gate has
\* exactly three inputs: the bit of the sequential step before n (bit 0 for
\* the first), the negated bit of n and a literal.  For a non-final step the
\* gate feeds the set input of a latch reset from the next sequential
\* step's bit, with operand n's bit; for the final step it feeds a coil with
\* operand n's bit and the network has no reset wire.
C21_StepNetworkWiring ==
    genOut.kind = "Document" =>
        LET sequential == SelectSeq(parseResult.steps, IsStap)
        IN \A idx \in DOMAIN sequential :
              LET u == StepUnit(idx)
                  n == sequential[idx].number
                  gate == PartNamed(u, "A")
              IN /\ Cardinality({w \in DOMAIN u.Wires : u.Wires[w].toUId = gate.UId}) = 3
                 /\ gate.hasCard /\ gate.Card = 3
                 /\ BitWired(u, IF idx = 1 THEN 0 ELSE sequential[idx - 1].number,
                             gate, "in1")
                 /\ BitWired(u, n, gate, "in2")
                 /\ LiteralWired(u, gate, "in3")
                 /\ gate.Negated = {"in2"}
                 /\ IF idx < Len(sequential)
                    THEN /\ UnitHasPart(u, "Sr") /\ ~UnitHasPart(u, "Coil")
                         /\ GateWired(u, gate, PartNamed(u, "Sr"), "s")
                         /\ BitWired(u, sequential[idx + 1].number, PartNamed(u, "Sr"), "r1")
                         /\ OperandIndices(u, "Sr") = {n}
                    ELSE /\ UnitHasPart(u, "Coil") /\ ~UnitHasPart(u, "Sr")
                         /\ GateWired(u, gate, PartNamed(u, "Coil"), "in")
                         /\ OperandIndices(u, "Coil") = {n}
                         /\ \A w \in DOMAIN u.Wires : u.Wires[w].toName # "r1"

\* a document with a non-final and a final sequential step, numbered apart
C21_Witness ==
    /\ genOut.kind = "Document"
    /\ LET sequential == SelectSeq(parseResult.steps, IsStap)
       IN /\ Len(sequential) >= 2
          /\ sequential[1].number # sequential[2].number
          /\ UnitHasPart(StepUnit(1), "Sr")
          /\ UnitHasPart(StepUnit(Len(sequential)), "Coil")


(***************************************************************************)
(* The interface of a generated document                                   *)
(***************************************************************************)
\* the Static members named Stap: the step-bit array
StepBitMembers ==
    {m \in DOMAIN genOut.FB.Interface.Static : genOut.FB.Interface.Static[m].Name = "Stap"}

\* the decimal strings of the indices 'Array[0..31] of Bool' declares
StepBitPaths == {ToString(k) : k \in 0..StepBitsHigh}

\* C22: the generated interface has one Static step-bit array member with
\* exactly one sub-comment per step of the program; the path of the k-th
\* sub-comment is the number of the k-th step, distinct steps have distinct
\* paths and every path is an index of the array 0..31.
C22_StepBitComments ==
    genOut.kind = "Document" =>
        /\ Cardinality(StepBitMembers) = 1
        /\ \A m \in StepBitMembers :
              LET subs == genOut.FB.Interface.Static[m].subelements
              IN /\ Len(subs) = Len(parseResult.steps)
                 /\ \A k \in DOMAIN subs : subs[k].Path = ToString(parseResult.steps[k].number)
                 /\ \A k, j \in DOMAIN subs : k # j => subs[k].Path # subs[j].Path
                 /\ \A k \in DOMAIN subs : subs[k].Path \in StepBitPaths


(***************************************************************************)
(* Validation of the step sequence                                         *)
(***************************************************************************)
\* the lines of the diagnostics of the given type in a list
DiagnosticLines(diagnostics, type) ==
    {diagnostics[i].lineNumber : i \in {j \in DOMAIN diagnostics : diagnostics[j].type = type}}

\* the sequential steps of the result
SequentialSteps == {i \in DOMAIN result.steps : result.steps[i].type = "SCHRITT"}

\* the sequential step numbers of the program below the number of step i
LowerNumbers(i) ==
    {result.steps[j].number : j \in {k \in SequentialSteps :
                                        result.steps[k].number < result.steps[i].number}}

\* step i does not continue the next-lower sequential number and carries no
\* VON-STEP transition
UnbridgedGap(i) ==
    /\ LowerNumbers(i) # {}
    /\ \A m \in LowerNumbers(i) :
          (\A k \in LowerNumbers(i) : k <= m) => result.steps[i].number # m + 1
    /\ Len(result.steps[i].transitions) = 0

\* C23: after UnifiedTextParser.parse, the sequencing-gap warnings are on the
\* lines of exactly the sequential steps whose number is not the successor
\* of the next-lower sequential number present and that carry no VON-STEP
\* transition.
C23_GapWarnings ==
    (phase = "validated" /\ parser = "UnifiedTextParser")
        => DiagnosticLines(result.warnings, "MISSING_SEQUENTIAL_STEP")
               = {result.steps[i].lineNumber : i \in {j \in SequentialSteps : UnbridgedGap(j)}}


\* the step number a declaration line of the text declares
DeclaredNumber(l) == IF IsRestKeyword(l.keyword) THEN 0 ELSE ParseIntOr(l.number, 1)

\* the VON-STEP lines of the text that stand below the program header and
\* name a step number no declaration of the text declares
UnknownSourceLines ==
    {i \in DOMAIN text :
        /\ text[i].kind = "von"
        /\ \E h \in 1..(i - 1) : text[h].kind = "header"
        /\ \A j \in DOMAIN text :
              text[j].kind = "decl" => DeclaredNumber(text[j]) # text[i].number}

\* the transitions of the result whose source is the number of no step
OrphanTransitions ==
    {<<i, k>> \in (DOMAIN result.steps) \X (1..MaxLines) :
        /\ k \in DOMAIN result.steps[i].transitions
        /\ \A j \in DOMAIN result.steps :
              result.steps[j].number # result.steps[i].transitions[k].fromStep}

CrossReferenceDiagnostics == {"CROSS_REFERENCE", "PROGRAM_NOT_FOUND", "STEP_NOT_FOUND"}

\* C25: with the default, lenient rules (requiresProgramExists and
\* requiresStepsExist both false) and an empty program registry, a parse that
\* recorded a cross-reference returns a result without any cross-reference
\* diagnostic among its errors and warnings.
C25_LenientCrossReferenceSilent ==
    (/\ phase \in {"parsed", "validated"}
     /\ ScansWithEnhancedLogicParser(parser)
     /\ parser = "UnifiedTextParser" => phase = "validated"
     /\ crossReferences # <<>>)
    => /\ \A e \in DOMAIN result.errors :
             result.errors[e].type \notin CrossReferenceDiagnostics
       /\ \A w \in DOMAIN result.warnings :
             result.warnings[w].type \notin CrossReferenceDiagnostics


(***************************************************************************)
(* RegexCache: compiled patterns kept in a Map in order of last use.  A    *)
(* RegExp is the object the Map holds: what an operation does to its       *)
(* lastIndex stays with the cached entry.  Patterns are single literal     *)
(* characters, or "(" which does not compile; texts are short character    *)
(* sequences.                                                              *)
(***************************************************************************)
MaxCacheSize == 2
MaxCacheCalls == 4
MaxCacheTextLen == 2

CachePatterns == {"a", "b", "("}

CacheFlags == {"", "g"}

CacheTexts == SeqsUpTo({"a", "b"}, MaxCacheTextLen)

\* the replacement the callers pass to replace
Replacement == "x"

\* new RegExp(pattern, flags) throws a SyntaxError
InvalidPattern(pattern) == pattern = "("

\* new RegExp(pattern, flags)
NewRegExp(pattern, flags) == [pattern |-> pattern, flags |-> flags, lastIndex |-> 0]

\* `${pattern}:::${flags}`
CacheKey(pattern, flags) == pattern \o ":::" \o flags

\* this.cache.has(cacheKey)
CacheHas(entries, key) == \E i \in DOMAIN entries : entries[i].key = key

\* this.cache.delete(key) for a key at position i
CacheDelete(entries, i) == SubSeq(entries, 1, i - 1) \o SubSeq(entries, i + 1, Len(entries))

\* this.cache after getRegex(pattern, flags) returned: the entry asked for is last
GetRegex(entries, size, pattern, flags) ==
    LET key == CacheKey(pattern, flags)
    IN  IF CacheHas(entries, key)
        THEN LET i == CHOOSE j \in DOMAIN entries : entries[j].key = key
             IN  Append(CacheDelete(entries, i), entries[i])
        ELSE LET kept == IF Len(entries) >= size /\ entries # <<>>
                         THEN CacheDelete(entries, 1)
                         ELSE entries
             IN  Append(kept, [key |-> key, regex |-> NewRegExp(pattern, flags)])

\* the regex carries the g flag
IsGlobal(regex) == regex.flags = "g"

\* the positions (from 0) at or after start where the pattern matches
MatchPositions(regex, str, start) ==
    {k \in start..(Len(str) - 1) : str[k + 1] = regex.pattern}

\* regex.exec(str): the match (<<>> for null) and the lastIndex it leaves
RegexExec(regex, str) ==
    LET start == IF IsGlobal(regex) THEN regex.lastIndex ELSE 0
        found == MatchPositions(regex, str, start)
    IN  IF found = {}
        THEN [value |-> <<>>,
              lastIndex |-> IF IsGlobal(regex) THEN 0 ELSE regex.lastIndex]
        ELSE LET k == CHOOSE m \in found : \A n \in found : m <= n
             IN  [value |-> <<[index |-> k, match |-> regex.pattern]>>,
                  lastIndex |-> IF IsGlobal(regex) THEN k + 1 ELSE regex.lastIndex]

\* regex.test(str)
RegexTestText(regex, str) ==
    LET r == RegexExec(regex, str)
    IN  [value |-> r.value # <<>>, lastIndex |-> r.lastIndex]

\* str.match(regex): with g every match from the start of the text
StringMatch(regex, str) ==
    IF IsGlobal(regex)
    THEN [value |-> SelectSeq(str, LAMBDA ch : ch = regex.pattern), lastIndex |-> 0]
    ELSE RegexExec(regex, str)

\* str.replace(regex, replacement): with g every match, otherwise the first
StringReplace(regex, str) ==
    IF IsGlobal(regex)
    THEN [value |-> [k \in DOMAIN str |->
                        IF str[k] = regex.pattern THEN Replacement ELSE str[k]],
          lastIndex |-> 0]
    ELSE LET found == MatchPositions(regex, str, 0)
         IN  [value |-> [k \in DOMAIN str |->
                            IF found # {} /\ \A n \in found : k - 1 <= n
                                  /\ str[k] = regex.pattern
                            THEN Replacement ELSE str[k]],
              lastIndex |-> regex.lastIndex]

\* what the operation gives on a regex and a text
Operate(op, regex, str) ==
    CASE op = "test" -> RegexTestText(regex, str)
      [] op = "exec" -> RegexExec(regex, str)
      [] op = "match" -> StringMatch(regex, str)
      [] op = "replace" -> StringReplace(regex, str)

\* test / exec / match / replace: getRegex, then the operation on what it returned
CacheOperation(op, pattern, flags, str) ==
    IF InvalidPattern(pattern)
    THEN /\ lastCall' = [op |-> op, pattern |-> pattern, flags |-> flags, threw |-> TRUE]
         /\ UNCHANGED <<cache, maxSize, hitCount, missCount, returned>>
    ELSE LET after == GetRegex(cache, maxSize, pattern, flags)
             regex == after[Len(after)].regex
             outcome == Operate(op, regex, str)
         IN  /\ cache' = [after EXCEPT ![Len(after)].regex.lastIndex = outcome.lastIndex]
             /\ hitCount' = IF CacheHas(cache, CacheKey(pattern, flags))
                            THEN hitCount + 1 ELSE hitCount
             /\ missCount' = IF CacheHas(cache, CacheKey(pattern, flags))
                             THEN missCount ELSE missCount + 1
             /\ returned' = returned + 1
             /\ lastCall' = [op |-> op, pattern |-> pattern, flags |-> flags,
                             threw |-> FALSE, str |-> str, value |-> outcome.value,
                             fresh |-> Operate(op, NewRegExp(pattern, flags), str).value]
             /\ UNCHANGED maxSize

(***************************************************************************)
(* Specification SpecCache: calls on one RegexCache                        *)
(***************************************************************************)
InitCache ==
    /\ parseResult = NoParseResult
    /\ genOut = NoOutput
    /\ net = IdleNetwork
    /\ netXml = NoOutput
    /\ ParserIdle
    /\ XmlIdle
    /\ NormIdle
    /\ DocIdle
    /\ GroupIdle
    /\ cache = <<>>
    /\ maxSize \in 0..MaxCacheSize
    /\ hitCount = 0
    /\ missCount = 0
    /\ returned = 0
    /\ lastCall = NoCall

CacheOthersUnchanged ==
    UNCHANGED <<genVars, netVars, parserVars, xmlVars, normVars, docVars, groupVars>>

CallGetRegex ==
    /\ returned < MaxCacheCalls
    /\ \E pattern \in CachePatterns, flags \in CacheFlags :
          IF InvalidPattern(pattern)
          THEN /\ lastCall' = [op |-> "getRegex", pattern |-> pattern, flags |-> flags,
                               threw |-> TRUE]
               /\ UNCHANGED <<cache, maxSize, hitCount, missCount, returned>>
          ELSE /\ cache' = GetRegex(cache, maxSize, pattern, flags)
               /\ hitCount' = IF CacheHas(cache, CacheKey(pattern, flags))
                              THEN hitCount + 1 ELSE hitCount
               /\ missCount' = IF CacheHas(cache, CacheKey(pattern, flags))
                               THEN missCount ELSE missCount + 1
               /\ returned' = returned + 1
               /\ lastCall' = [op |-> "getRegex", pattern |-> pattern, flags |-> flags,
                               threw |-> FALSE]
               /\ UNCHANGED maxSize
    /\ CacheOthersUnchanged

CallTest ==
    /\ returned < MaxCacheCalls
    /\ \E pattern \in CachePatterns, flags \in CacheFlags, str \in CacheTexts :
          CacheOperation("test", pattern, flags, str)
    /\ CacheOthersUnchanged

CallExec ==
    /\ returned < MaxCacheCalls
    /\ \E pattern \in CachePatterns, flags \in CacheFlags, str \in CacheTexts :
          CacheOperation("exec", pattern, flags, str)
    /\ CacheOthersUnchanged

CallMatch ==
    /\ returned < MaxCacheCalls
    /\ \E pattern \in CachePatterns, flags \in CacheFlags, str \in CacheTexts :
          CacheOperation("match", pattern, flags, str)
    /\ CacheOthersUnchanged

CallReplace ==
    /\ returned < MaxCacheCalls
    /\ \E pattern \in CachePatterns, flags \in CacheFlags, str \in CacheTexts :
          CacheOperation("replace", pattern, flags, str)
    /\ CacheOthersUnchanged

CallClear ==
    /\ cache' = <<>>
    /\ hitCount' = 0
    /\ missCount' = 0
    /\ returned' = 0
    /\ lastCall' = [op |-> "clear"]
    /\ UNCHANGED maxSize
    /\ CacheOthersUnchanged

NextCache == CallGetRegex \/ CallTest \/ CallExec \/ CallMatch \/ CallReplace \/ CallClear

SpecCache == InitCache /\ [][NextCache]_vars

\* C26: a test, exec, match or replace call on the RegexCache gives what the
\* same operation gives with a freshly compiled pattern
C26_CacheTransparent ==
    (lastCall.op \in {"test", "exec", "match", "replace"} /\ ~lastCall.threw)
        => lastCall.value = lastCall.fresh

\* C30: the RegexCache never holds more entries than maxSize, and hitCount and
\* missCount together count the getRegex calls that returned
C30_CacheWithinMaxSize ==
    /\ Len(cache) <= maxSize
    /\ hitCount + missCount = returned

(***************************************************************************)
(* Specification SpecVariable: a program header, a variable definition,    *)
(* condition lines under it, the line that ends the block and what follows *)
(***************************************************************************)
BlockEnds == {<<>>, <<BlankLine>>, <<VariableLine>>, <<Decl("STAP", 1, "a")>>}

VariableTexts ==
    {<<HeaderLine, VariableLine>> \o cs \o end \o more :
        cs \in SeqsUpTo({Cond(ind, m) : ind \in BOOLEAN, m \in Markers}, MaxCondLines)
                  \ {<<>>},
        end \in BlockEnds,
        more \in {<<>>, <<Cond(TRUE, "-")>>}}

InitVariable == Called(VariableTexts)
SpecVariable == InitVariable /\ [][NextParse]_vars

\* with no step open the parser takes the line as a condition: LogicParser any
\* indented or marked line, EnhancedLogicParser a line with a marker
MarkedCondition(l) ==
    /\ l.kind = "cond"
    /\ IF parser = "LogicParser" THEN l.indented \/ l.marker # "" ELSE l.marker # ""

\* the variable definition on line n has no step declaration above it
Standalone(n) == \A m \in 1..(n - 1) : code[m].kind # "decl"

\* the condition lines directly under line n, up to the line that ends the block
ConditionBlock(n) ==
    {j \in (n + 1)..Len(code) : \A m \in (n + 1)..j : MarkedCondition(code[m])}

\* C27: every condition line of the block under a standalone variable definition
\* is among that variable's conditions in the result of the parse
C27_VariableConditionsKept ==
    (phase = "parsed" /\ parser \in {"LogicParser", "EnhancedLogicParser"})
        => \A v \in DOMAIN result.variables :
              Standalone(result.variables[v].lineNumber)
                  => \A j \in ConditionBlock(result.variables[v].lineNumber) :
                        \E c \in DOMAIN result.variables[v].conditions :
                            result.variables[v].conditions[c].lineNumber = j

(***************************************************************************)
(* The groups of a step's entry conditions                                 *)
(***************************************************************************)
\* C28: in the entry conditions of every step every group holds a condition, the
\* first group is an AND group, and every condition carries the operator of its
\* group
C28_EntryGroupsWellFormed ==
    ScansWithEnhancedLogicParser(parser)
        => \A s \in DOMAIN result.steps :
              LET groups == result.steps[s].entryConditions
              IN  /\ \A g \in DOMAIN groups : Len(groups[g].conditions) > 0
                  /\ Len(groups) > 0 => groups[1].operator = "AND"
                  /\ \A g \in DOMAIN groups : \A c \in DOMAIN groups[g].conditions :
                        groups[g].conditions[c].operator = groups[g].operator

(***************************************************************************)
(* Specification SpecTransition: a program header, a step declaration with *)
(* or without a condition, a VON SCHRITT line, condition lines under it    *)
(* and, or not, the declaration of the next step                           *)
(***************************************************************************)
TransitionTexts ==
    {<<HeaderLine, Decl("STAP", 1, "a")>> \o pre \o <<Von(m, 1)>> \o cs \o next :
        pre \in {<<>>, <<Cond(TRUE, "-")>>},
        m \in {"", "+"},
        cs \in SeqsUpTo({Cond(ind, mk) : ind \in BOOLEAN, mk \in Markers}, MaxCondLines),
        next \in {<<>>, <<Decl("STAP", 2, "a")>>}}

InitTransition == Called(TransitionTexts)
SpecTransition == InitTransition /\ [][NextParse]_vars

\* the condition lines between a VON SCHRITT line and the next declaration
TransitionConditionLines ==
    {j \in DOMAIN code :
        /\ code[j].kind = "cond"
        /\ \E v \in 1..(j - 1) :
              /\ VonSchrittMatch(code[v])
              /\ \A m \in (v + 1)..j : code[m].kind = "cond"}

\* C29: a condition line between a VON SCHRITT line and the next step declaration
\* is in no step's entry conditions
C29_TransitionConditionsOnly ==
    ScansWithEnhancedLogicParser(parser)
        => \A s \in DOMAIN result.steps :
              \A g \in DOMAIN result.steps[s].entryConditions :
                  \A c \in DOMAIN result.steps[s].entryConditions[g].conditions :
                      result.steps[s].entryConditions[g].conditions[c].lineNumber
                          \notin TransitionConditionLines

====
